---- MODULE Spec2Model ----
(***************************************************************************)
(* A model of the change-detection core of code-squad:                     *)
(*   - TerminalStatusDetector (detect, detectFromBuffer, pattern tables),  *)
(*   - DetectThreadStatusUseCase (the per-terminal status tracker),        *)
(*   - DiffService (computeDiff, formatAsUnifiedDiff, parseUnifiedDiff),   *)
(*   - FileWatchController's git commit watcher and VscodeTerminalGateway. *)
(*                                                                         *)
(* Text is a sequence of tokens.  A token is one character ("?", ">", a    *)
(* space, a line break, a digit, a letter) or one cue word that the        *)
(* pattern tables look for ("Reading", "(y/n)", ...), kept whole because   *)
(* no pattern matches a part of it.  Regular expressions are modelled by a *)
(* small matcher over token sequences (classes, *, +, ^, $, the m flag).   *)
(***************************************************************************)
EXTENDS Integers, Sequences, FiniteSets, TLC

VARIABLES
    \* DetectThreadStatusUseCase
    states,       \* Map<string, TerminalState>: terminal id -> state object, or NoObj
    heap,         \* the TerminalState objects: object -> record, or Null
    timers,       \* pending setTimeout callbacks: handle -> closure, or Null
    callbacks,    \* StatusChangeCallback[] in registration order
    lastOp,       \* history: what the last operation was and what it notified
    lastCall,     \* history, per terminal: the last call for it and what followed
    received,     \* history, per terminal: the non-blank lines its state received
    emitted,      \* history, per terminal: the last event since its state was
                  \* created, and whether an event repeated the one before it
    \* TerminalStatusDetector, applied to one input
    dAiType, dOutput, dLines, dStatus,
    \* DiffService, applied to one pair of inputs or to one text
    oldLines, newLines, content, diffStage, diffEntries, formatted, diffResult,
    \* GenerateDiffUseCase, applied to one path
    ports,        \* what the collaborators answer: snapshots, file system, git
    ucCalls,      \* history: the collaborator calls execute made, in order
    ucResult,     \* what execute gave back: nothing yet, null, a DiffResult, a failure
    \* FileWatchController: the git commit watcher
    head,             \* the repository: the number of the commit HEAD points at
    lastHeadCommit,   \* this.lastHeadCommit: a commit hash or undefined
    inFlight,         \* the getCurrentHeadCommit calls awaited: who awaits, what
                      \* git rev-parse has read
    started,          \* history: how many git-change events have been delivered
    handled,          \* history: the handleCommit calls, in order
    \* VscodeTerminalGateway
    terminals,        \* Map<string, vscode.Terminal>
    terminalToId      \* Map<vscode.Terminal, string>

trackerVars == <<states, heap, timers, callbacks, lastOp, lastCall, received,
                 emitted>>
detectVars  == <<dAiType, dOutput, dLines, dStatus>>
diffVars    == <<oldLines, newLines, content, diffStage, diffEntries, formatted,
                 diffResult>>
useCaseVars == <<ports, ucCalls, ucResult>>
watchVars   == <<head, lastHeadCommit, inFlight, started, handled>>
gatewayVars == <<terminals, terminalToId>>
adapterVars == <<watchVars, gatewayVars>>
vars        == <<trackerVars, detectVars, diffVars, useCaseVars, adapterVars>>

----------------------------------------------------------------------------
(* Tokens *)

NL  == "NL"       \* the line break \n
SP  == " "        \* a space
CSI == "ESC["     \* the two characters \x1B[ that introduce an ANSI sequence
DIGIT == "0"      \* a decimal digit
LETTER == "a"     \* a letter that is part of no cue word
SPINNER == "U+25CF"   \* the spinner glyph of the working patterns
SEND_GLYPH == "U+2B90" \* the return glyph of the codex "send" hint

\* Every token a text of the model is made of.
Tokens ==
    { NL, SP, CSI, DIGIT, LETTER, SPINNER, SEND_GLYPH, "?", ">", "$", ";",
      "Enter to select", "(y/n)", "(Y/N)", "Confirm", "confirm",
      "Reading", "...", "-- INSERT --", "send", "tokens" }

\* The tokens whose first character is in [a-zA-Z].
LetterInitial ==
    { LETTER, "Enter to select", "Confirm", "confirm", "Reading", "send", "tokens" }

Whitespace == { SP, NL }          \* \s
Dot        == Tokens \ { NL }     \* . (any character but a line terminator)

----------------------------------------------------------------------------
(* Regular expressions over token sequences *)

One(c)  == [cls |-> c, q |-> "1"]
Star(c) == [cls |-> c, q |-> "*"]
Plus(c) == [cls |-> c, q |-> "+"]

\* /e1 e2 .../ with optional ^ (bol), $ (eol) and the m flag
Re(elems)        == [elems |-> elems, bol |-> FALSE, eol |-> FALSE, m |-> FALSE]
ReEnd(elems)     == [elems |-> elems, bol |-> FALSE, eol |-> TRUE,  m |-> FALSE]
ReEndM(elems)    == [elems |-> elems, bol |-> FALSE, eol |-> TRUE,  m |-> TRUE]
ReLineM(elems)   == [elems |-> elems, bol |-> TRUE,  eol |-> TRUE,  m |-> TRUE]
Word(w)          == Re(<<One({w})>>)          \* a literal cue
WordIn(ws)       == Re(<<One(ws)>>)           \* a literal cue under the i flag

\* The length of the longest run of tokens of class c in t from position i.
RECURSIVE RunLen(_, _, _)
RunLen(t, i, c) ==
    IF i <= Len(t) /\ t[i] \in c THEN 1 + RunLen(t, i + 1, c) ELSE 0

\* The positions at which a match of elems[k..] that starts at i can end
\* (the position after the last matched token).
RECURSIVE MatchEnds(_, _, _, _)
MatchEnds(elems, k, t, i) ==
    IF k > Len(elems) THEN { i }
    ELSE LET e == elems[k]
             n == RunLen(t, i, e.cls)
             after == CASE e.q = "1" -> IF n >= 1 THEN { i + 1 } ELSE {}
                        [] e.q = "*" -> { i + d : d \in 0..n }
                        [] e.q = "+" -> { i + d : d \in 1..n }
         IN  UNION { MatchEnds(elems, k + 1, t, j) : j \in after }

AtLineStart(t, i, m) == i = 1 \/ (m /\ t[i - 1] = NL)
AtLineEnd(t, j, m)   == j = Len(t) + 1 \/ (m /\ t[j] = NL)

\* RegExp.prototype.test: the pattern matches somewhere in t.
Test(re, t) ==
    \E i \in 1..(Len(t) + 1) :
        /\ re.bol => AtLineStart(t, i, re.m)
        /\ \E j \in MatchEnds(re.elems, 1, t, i) : re.eol => AtLineEnd(t, j, re.m)

----------------------------------------------------------------------------
(* TerminalStatusDetector: pattern tables *)

YN          == WordIn({"(y/n)", "(Y/N)"})                      \* /\(y\/n\)/i
BracketYn   == WordIn({"[Y/n]", "[y/n]", "[y/N]", "[Y/N]"})    \* /\[Y\/n\]/i, /\[y\/N\]/i
QuestionTail == ReEnd(<<One({"?"}), One({SP}), Plus(Dot)>>)    \* /\? .+$/
ConfirmCI   == WordIn({"Confirm", "confirm", "CONFIRM"})       \* /Confirm/i
SpinnerRe   == WordIn({SPINNER})                               \* /[spinner glyphs]/
Ellipsis    == Word("...")                                     \* /\.\.\./
PromptLine  == ReLineM(<<One({">"}), Star(Whitespace)>>)       \* /^>\s*$/m
ShellPrompt == ReEndM(<<One({"$"}), Star(Whitespace)>>)        \* /\$\s*$/m
Hint(a, b)  == Re(<<One({a}), Star(Whitespace), One({b})>>)    \* /a\s*b/

CLAUDE_PATTERNS == <<
    [status |-> "waiting", priority |-> 3, patterns |-> <<
        Word("Enter to select"), YN, BracketYn, BracketYn,
        Word("Tab/Arrow keys"), Word("Press Enter to continue"), QuestionTail,
        Re(<<One({"Do you want to proceed", "do you want to proceed"}), One({"?"})>>) >>],
    [status |-> "working", priority |-> 2, patterns |-> <<
        SpinnerRe, Word("Reading"), Word("Writing"), Word("Searching"),
        Word("Analyzing"), Word("Thinking"), Word("Planning") >>],
    [status |-> "idle", priority |-> 1, patterns |-> <<
        PromptLine, Word("-- INSERT --"), Word("-- NORMAL --"),
        Re(<<Plus({DIGIT}), One({SP}), One({"tokens"})>>) >>] >>

CODEX_PATTERNS == <<
    [status |-> "waiting", priority |-> 3, patterns |-> <<
        YN, BracketYn, QuestionTail, ConfirmCI >>],
    [status |-> "working", priority |-> 2, patterns |-> <<
        SpinnerRe, Ellipsis, WordIn({"Working", "working"}),
        WordIn({"Running", "running"}), WordIn({"Executing", "executing"}) >>],
    [status |-> "idle", priority |-> 1, patterns |-> <<
        Hint(SEND_GLYPH, "send"), Hint("^J", "newline"), Hint("^T", "transcript"),
        Hint("^C", "quit"), Word("To get started"), Word("describe a task"),
        Word("OpenAI Codex"), PromptLine, ShellPrompt >>] >>

GEMINI_PATTERNS == <<
    [status |-> "waiting", priority |-> 3, patterns |-> <<
        YN, BracketYn, QuestionTail, ConfirmCI >>],
    [status |-> "working", priority |-> 2, patterns |-> <<
        SpinnerRe, Ellipsis, WordIn({"Thinking", "thinking"}),
        WordIn({"Processing", "processing"}), WordIn({"Generating", "generating"}) >>],
    [status |-> "idle", priority |-> 1, patterns |-> <<
        Word("Type your message"), Word("@path/to/file"), Word("no sandbox"),
        Word("GEMINI.md"), Word("Tips for getting started"), PromptLine, ShellPrompt >>] >>

GENERIC_PATTERNS == <<
    [status |-> "waiting", priority |-> 3, patterns |-> << YN, BracketYn, QuestionTail >>],
    [status |-> "working", priority |-> 2, patterns |-> << SpinnerRe, Ellipsis >>],
    [status |-> "idle", priority |-> 1, patterns |-> << PromptLine, ShellPrompt >>] >>

AITypes == { "claude", "codex", "gemini", "generic" }

getPatternsForAI(aiType) ==
    CASE aiType = "claude" -> CLAUDE_PATTERNS
      [] aiType = "codex"  -> CODEX_PATTERNS
      [] aiType = "gemini" -> GEMINI_PATTERNS
      [] OTHER             -> GENERIC_PATTERNS

----------------------------------------------------------------------------
(* TerminalStatusDetector: stripAnsiCodes, detect, detectFromBuffer *)

\* What is left of a token when its first character, a letter, is removed:
\* nothing of a single letter, letters that are no cue of a cue word.
Rest(tok) == IF tok = LETTER THEN <<>> ELSE <<LETTER>>

\* text.replace(/\x1B\[[0-9;]*[a-zA-Z]/g, ''): one pass from the left; a match
\* is CSI, any digits and semicolons, one letter.
RECURSIVE StripFrom(_, _)
StripFrom(t, i) ==
    IF i > Len(t) THEN <<>>
    ELSE IF t[i] = CSI
         THEN LET k == i + 1 + RunLen(t, i + 1, {DIGIT, ";"})
              IN  IF k <= Len(t) /\ t[k] \in LetterInitial
                  THEN Rest(t[k]) \o StripFrom(t, k + 1)
                  ELSE <<t[i]>> \o StripFrom(t, i + 1)
         ELSE <<t[i]>> \o StripFrom(t, i + 1)

stripAnsiCodes(text) == StripFrom(text, 1)

\* [...patterns].sort((a, b) => b.priority - a.priority): a stable insertion
\* of each group before the first group of lower priority.
RECURSIVE SortFrom(_, _)
InsertByPriority(sorted, g) ==
    LET before == { i \in 1..Len(sorted) : sorted[i].priority >= g.priority }
        n == Cardinality(before)
    IN  SubSeq(sorted, 1, n) \o <<g>> \o SubSeq(sorted, n + 1, Len(sorted))
SortFrom(groups, k) ==
    IF k = 0 THEN <<>> ELSE InsertByPriority(SortFrom(groups, k - 1), groups[k])

SortAscending(groups) ==
    [i \in 1..Len(groups) |->
        SortFrom(groups, Len(groups))[Len(groups) + 1 - i]]

sortByPriorityDesc(groups) == SortFrom(groups, Len(groups))

GroupMatches(g, t) == \E k \in 1..Len(g.patterns) : Test(g.patterns[k], t)

\* The loops that stop before the last group.
RECURSIVE FirstMatchButLast(_, _, _)
FirstMatchButLast(groups, k, t) ==
    IF k >= Len(groups) THEN "inactive"
    ELSE IF GroupMatches(groups[k], t) THEN groups[k].status
    ELSE FirstMatchButLast(groups, k + 1, t)

\* The status of the first group, in order, that has a matching pattern.
RECURSIVE FirstMatch(_, _, _)
FirstMatch(groups, k, t) ==
    IF k > Len(groups) THEN "inactive"
    ELSE IF GroupMatches(groups[k], t) THEN groups[k].status
    ELSE FirstMatch(groups, k + 1, t)

\* A detect that lets a prompt line win over every cue.
detectPromptFirst(aiType, output) ==
    IF Test(PromptLine, stripAnsiCodes(output)) THEN "idle"
    ELSE FirstMatch(sortByPriorityDesc(getPatternsForAI(aiType)), 1,
                    stripAnsiCodes(output))

detect(aiType, output) ==
    LET cleanOutput == stripAnsiCodes(output)
        sortedPatterns == sortByPriorityDesc(getPatternsForAI(aiType))
    IN  FirstMatch(sortedPatterns, 1, cleanOutput)

\* lines.join('\n')
RECURSIVE Join(_)
Join(lines) ==
    IF Len(lines) = 0 THEN <<>>
    ELSE IF Len(lines) = 1 THEN lines[1]
    ELSE lines[1] \o <<NL>> \o Join(Tail(lines))

\* text.split('\n'): always at least one (possibly empty) line
RECURSIVE Split(_)
Split(t) ==
    LET brk == { i \in 1..Len(t) : t[i] = NL }
    IN  IF brk = {} THEN <<t>>
        ELSE LET i == CHOOSE x \in brk : \A y \in brk : x <= y
             IN  <<SubSeq(t, 1, i - 1)>> \o Split(SubSeq(t, i + 1, Len(t)))

\* lines.slice(-n)
LastN(s, n) == IF Len(s) <= n THEN s ELSE SubSeq(s, Len(s) - n + 1, Len(s))

\* The loop run from the oldest line to the newest (i lines are left).
RECURSIVE ScanOldestFirst(_, _, _)
ScanOldestFirst(aiType, lines, i) ==
    IF i = 0 THEN "inactive"
    ELSE LET status == detect(aiType, lines[Len(lines) - i + 1])
         IN  IF status # "inactive" THEN status
             ELSE ScanOldestFirst(aiType, lines, i - 1)

\* The loop of detectFromBuffer, from line i down to the first.
RECURSIVE ScanBack(_, _, _)
ScanBack(aiType, lines, i) ==
    IF i = 0 THEN "inactive"
    ELSE LET status == detect(aiType, lines[i])
         IN  IF status # "inactive" THEN status ELSE ScanBack(aiType, lines, i - 1)

detectFromBuffer(aiType, lines) ==
    LET scanned == ScanBack(aiType, lines, Len(lines))
    IN  IF scanned # "inactive" THEN scanned
        ELSE IF Len(lines) >= 2
             THEN detect(aiType, Join(LastN(lines, 3)))
             ELSE "inactive"

----------------------------------------------------------------------------
(* Bounds and input sets *)

MaxTextLen == 3        \* longest text given to detect

\* The tokens the detector's inputs are drawn from.
DetectAlphabet ==
    { LETTER, SP, NL, DIGIT, CSI, "?", ">", "$",
      "(y/n)", "Confirm", "Reading", "...", "-- INSERT --", "tokens" }

TextsUpTo(alphabet, n) == UNION { [1..k -> alphabet] : k \in 0..n }

----------------------------------------------------------------------------
(* Values the variables of a component hold while another one is studied *)

Null    == "null"
NoTimer == <<>>        \* idleTimer: undefined

DetectIdle ==
    dAiType = "generic" /\ dOutput = <<>> /\ dLines = <<>> /\ dStatus = "none"

UseCaseIdle == ports = <<>> /\ ucCalls = <<>> /\ ucResult = [kind |-> "none"]

DiffIdle ==
    /\ oldLines = <<>> /\ newLines = <<>> /\ content = <<>> /\ diffStage = "off"
    /\ diffEntries = <<>> /\ formatted = <<>> /\ diffResult = Null

NoCommit == <<>>       \* lastHeadCommit, currentCommit: undefined

WatchIdle ==
    /\ head = 1 /\ lastHeadCommit = NoCommit /\ inFlight = {} /\ started = 0
    /\ handled = <<>>

GatewayIdle == terminals = <<>> /\ terminalToId = <<>>

AdapterIdle == WatchIdle /\ GatewayIdle

----------------------------------------------------------------------------
(* SpecDetect: TerminalStatusDetector.detect applied to one input *)

DetectCall ==
    /\ dStatus = "none"
    /\ dStatus' = detect(dAiType, dOutput)
    /\ UNCHANGED <<dAiType, dOutput, dLines, trackerVars, diffVars, useCaseVars, adapterVars>>

----------------------------------------------------------------------------
(* DetectThreadStatusUseCase *)

IDLE_TIMEOUT_MS  == 2000
MAX_BUFFER_LINES == 20

Ids       == { "t1", "t2" }            \* terminal ids
Listeners == << "cb1", "cb2" >>        \* the callbacks given to onStatusChange, in order

\* Identities.  A TerminalState object is named by the id it was created for
\* and a generation, a setTimeout handle by the object whose closure it holds
\* and an index; the lowest free name is taken, so that objects and handles
\* that can no longer be told apart share a name.
Objs    == Ids \X { 1, 2 }
Handles == Objs \X { 1, 2 }

MaxBuffered == 2       \* most lines buffered over all terminals

TrackerAiTypes == { "claude", "codex" }
\* The lines of the chunks delivered: no cue, a waiting cue, the idle prompt,
\* a working cue (of claude; no cue of codex), a question.
Question       == << "?", SP, LETTER >>
TrackerLines   == { <<LETTER>>, <<"(y/n)">>, <<">">>, <<"Reading">>, Question }
\* The chunks delivered: a blank chunk, every line but the question, every two
\* of them, and a prompt followed by a question and a line break.
TrackerChunks ==
    LET single == TrackerLines \ { Question }
    IN  { <<SP>> } \cup single
          \cup { l1 \o <<NL>> \o l2 : l1 \in single, l2 \in single }
          \cup { <<">", NL>> \o Question \o <<NL>> }

Range(f) == { f[x] : x \in DOMAIN f }
Min(S)   == CHOOSE x \in S : \A y \in S : x <= y

MaxReceived == 22      \* most lines one terminal receives in a long stream

\* k lines that match no pattern, told apart by their place: a, 0, a, 0, ...
PlainLines(k) == [i \in 1..k |-> IF i % 2 = 1 THEN <<LETTER>> ELSE <<DIGIT>>]
\* The chunks of a long stream: a blank chunk, a waiting cue, 9 and 10 plain
\* lines, and 21 lines of which the first is a waiting cue or the idle prompt.
StreamChunks ==
    { <<SP>>, <<"(y/n)">>, Join(PlainLines(9)), Join(PlainLines(10)),
      Join(<< <<"(y/n)">> >> \o PlainLines(MAX_BUFFER_LINES)),
      Join(<< <<">">> >> \o PlainLines(MAX_BUFFER_LINES)) }

BuffersUpTo(n) == UNION { [1..k -> TrackerLines] : k \in 0..n }

\* this.detector.detect and this.detector.detectFromBuffer, tabulated once over
\* the chunks and buffers of the tracker (the values are those of detect and
\* detectFromBuffer above).
detectorDetect ==
    [aiType \in TrackerAiTypes, output \in TrackerChunks \cup StreamChunks |->
        detect(aiType, output)] @@ <<>>
detectorDetectFromBuffer ==
    [aiType \in TrackerAiTypes, lines \in BuffersUpTo(MaxBuffered) |->
        detectFromBuffer(aiType, lines)] @@ <<>>

\* this.detector.detectFromBuffer(aiType, state.outputBuffer)
bufferStatusOf(aiType, lines) ==
    IF <<aiType, lines>> \in DOMAIN detectorDetectFromBuffer
    THEN detectorDetectFromBuffer[aiType, lines]
    ELSE detectFromBuffer(aiType, lines)

\* Map.set / Map.delete on a function whose domain is the set of keys
MapSet(f, k, v) == [x \in (DOMAIN f) \cup {k} |-> IF x = k THEN v ELSE f[x]]
MapDelete(f, k) == [x \in (DOMAIN f) \ {k} |-> f[x]]

\* line.trim().length > 0
NonBlank(line) == \E i \in 1..Len(line) : line[i] \notin Whitespace

\* output.split('\n').filter(line => line.trim().length > 0)
newLinesOf(output) == SelectSeq(Split(output), NonBlank)

\* push(...newLines) with no truncation.
appendUntruncated(outputBuffer, lines) == outputBuffer \o lines

\* The truncation that keeps the oldest lines: slice(0, MAX_BUFFER_LINES).
appendKeepingOldest(outputBuffer, lines) ==
    LET all == outputBuffer \o lines
    IN  IF Len(all) > MAX_BUFFER_LINES THEN SubSeq(all, 1, MAX_BUFFER_LINES) ELSE all

\* push(...newLines), then slice(-MAX_BUFFER_LINES) when longer
appendToBuffer(outputBuffer, lines) ==
    LET all == outputBuffer \o lines
    IN  IF Len(all) > MAX_BUFFER_LINES THEN LastN(all, MAX_BUFFER_LINES) ELSE all

\* clearTimeout(handle): a handle that is not pending is ignored
clearTimeout(tm, h) == IF h \in DOMAIN tm THEN MapDelete(tm, h) ELSE tm

\* The objects still referenced, by the map or by a pending timer's closure.
Reachable(st, tm) == Range(st) \cup { tm[h].state : h \in DOMAIN tm }
Collect(hp, st, tm) == [o \in (DOMAIN hp) \cap Reachable(st, tm) |-> hp[o]]

getStatus(terminalId) ==
    IF terminalId \in DOMAIN states THEN heap[states[terminalId]].status ELSE "inactive"

\* notifyChange: one invocation per registered callback, in order
notifyChangeReversed(cbs, terminalId, status) ==
    [i \in 1..Len(cbs) |->
        [callback |-> cbs[Len(cbs) + 1 - i], terminalId |-> terminalId,
         status |-> status]]

notifyChange(cbs, terminalId, status) ==
    [i \in 1..Len(cbs) |->
        [callback |-> cbs[i], terminalId |-> terminalId, status |-> status]]

\* The three branches of processOutput after the buffer and timer handling:
\* the new status, whether notifyChange is called, whether the timer is armed.
decideBufferFirst(status, currentStatus, bufferStatus) ==
    IF bufferStatus = "waiting"
    THEN [status |-> "waiting", notify |-> status # "waiting", arm |-> FALSE]
    ELSE IF currentStatus = "idle"
    THEN [status |-> "idle", notify |-> status # "idle", arm |-> FALSE]
    ELSE [status |-> "working", notify |-> status # "working", arm |-> TRUE]

\* The waiting branch that arms the idle timer too.
decideArmingWaiting(status, currentStatus, bufferStatus) ==
    IF currentStatus = "idle"
    THEN [status |-> "idle", notify |-> status # "idle", arm |-> FALSE]
    ELSE IF bufferStatus = "waiting"
    THEN [status |-> "waiting", notify |-> status # "waiting", arm |-> TRUE]
    ELSE [status |-> "working", notify |-> status # "working", arm |-> TRUE]

\* The branches that notify whether or not the status changes.
decideNotifyingAlways(status, currentStatus, bufferStatus) ==
    IF currentStatus = "idle"
    THEN [status |-> "idle", notify |-> TRUE, arm |-> FALSE]
    ELSE IF bufferStatus = "waiting"
    THEN [status |-> "waiting", notify |-> TRUE, arm |-> FALSE]
    ELSE [status |-> "working", notify |-> TRUE, arm |-> TRUE]

\* The fall-through branch that leaves the status as it is.
decideKeepingStatus(status, currentStatus, bufferStatus) ==
    IF currentStatus = "idle"
    THEN [status |-> "idle", notify |-> status # "idle", arm |-> FALSE]
    ELSE IF bufferStatus = "waiting"
    THEN [status |-> "waiting", notify |-> status # "waiting", arm |-> FALSE]
    ELSE [status |-> status, notify |-> FALSE, arm |-> TRUE]

decide(status, currentStatus, bufferStatus) ==
    IF currentStatus = "idle"
    THEN [status |-> "idle", notify |-> status # "idle", arm |-> FALSE]
    ELSE IF bufferStatus = "waiting"
    THEN [status |-> "waiting", notify |-> status # "waiting", arm |-> FALSE]
    ELSE [status |-> "working", notify |-> status # "working", arm |-> TRUE]

\* A callback that leaves the status as it is.
onIdleTimeoutKeeping(status) == [status |-> status, notify |-> FALSE]

\* The setTimeout callback: idle only if the captured state is still working.
onIdleTimeoutWrongGuard(status) ==
    IF status = "waiting"
    THEN [status |-> "idle", notify |-> TRUE]
    ELSE [status |-> status, notify |-> FALSE]

onIdleTimeout(status) ==
    IF status = "working"
    THEN [status |-> "idle", notify |-> TRUE]
    ELSE [status |-> status, notify |-> FALSE]

\* processOutput without the clearTimeout.
cancelNothing(tm, state) == tm

\* processOutput: if (state.idleTimer) clearTimeout(state.idleTimer)
cancelPending(tm, state) ==
    IF state.idleTimer # NoTimer THEN clearTimeout(tm, state.idleTimer) ELSE tm

TotalBuffered(hp) ==
    LET RECURSIVE Sum(_)
        Sum(S) == IF S = {} THEN 0
                  ELSE LET o == CHOOSE x \in S : TRUE
                       IN  Len(hp[o].outputBuffer) + Sum(S \ {o})
    IN  Sum(DOMAIN hp)

\* No event yet since the state was created.
NoEvent == [last |-> "none", repeated |-> FALSE]

\* The history of a terminal after the events of one operation.
RECURSIVE Emit(_, _)
Emit(e, events) ==
    IF events = <<>> THEN e
    ELSE Emit([last |-> Head(events).status,
               repeated |-> e.repeated \/ e.last = Head(events).status],
              Tail(events))

NoCall == [op |-> "none", currentStatus |-> "none", bufferStatus |-> "none",
           events |-> <<>>]

TrackerInit ==
    /\ states = <<>>
    /\ heap = <<>>
    /\ timers = <<>>
    /\ callbacks = <<>>
    /\ lastOp = [op |-> "new", terminalId |-> "none", output |-> <<>>,
                 prev |-> "none",
                 currentStatus |-> "none", bufferStatus |-> "none",
                 cancelled |-> FALSE, events |-> <<>>, calls |-> <<>>]
    /\ lastCall = [id \in Ids |-> NoCall]
    /\ received = [id \in Ids |-> <<>>]
    /\ emitted = [id \in Ids |-> NoEvent]

TrackerIdle == TrackerInit

ProcessOutput(terminalId, aiType, output) ==
    LET has == terminalId \in DOMAIN states
        \* getOrCreateState
        freeObjs == { g \in {1, 2} : <<terminalId, g>> \notin DOMAIN heap }
        o == IF has THEN states[terminalId] ELSE <<terminalId, Min(freeObjs)>>
        state == IF has THEN heap[o]
                 ELSE [status |-> "inactive", outputBuffer |-> <<>>,
                       idleTimer |-> NoTimer]
        outputBuffer == appendToBuffer(state.outputBuffer, newLinesOf(output))
        \* if (state.idleTimer) clearTimeout(state.idleTimer)
        timers1 == cancelPending(timers, state)
        currentStatus == detectorDetect[aiType, output]
        bufferStatus == bufferStatusOf(aiType, outputBuffer)
        d == decide(state.status, currentStatus, bufferStatus)
        freeHandles == { n \in {1, 2} : <<o, n>> \notin DOMAIN timers1 }
        h == <<o, Min(freeHandles)>>
        state1 == [status |-> d.status, outputBuffer |-> outputBuffer,
                   idleTimer |-> IF d.arm THEN h ELSE NoTimer]
        events == IF d.notify
                  THEN << [terminalId |-> terminalId, status |-> d.status] >>
                  ELSE <<>>
    IN  /\ has \/ freeObjs # {}
        /\ freeHandles # {}
        /\ states' = MapSet(states, terminalId, o)
        /\ heap' = MapSet(heap, o, state1)
        /\ timers' = IF d.arm
                     THEN MapSet(timers1, h, [state |-> o, terminalId |-> terminalId])
                     ELSE timers1
        /\ lastOp' = [op |-> "processOutput", terminalId |-> terminalId,
                      output |-> output, prev |-> state.status,
                      currentStatus |-> currentStatus, bufferStatus |-> bufferStatus,
                      cancelled |-> timers1 # timers, events |-> events,
                      calls |-> IF d.notify
                                THEN notifyChange(callbacks, terminalId, d.status)
                                ELSE <<>>]
        /\ lastCall' = [lastCall EXCEPT ![terminalId] =
                          [op |-> "processOutput", currentStatus |-> currentStatus,
                           bufferStatus |-> bufferStatus, events |-> <<>>]]
        /\ received' = [received EXCEPT ![terminalId] = @ \o newLinesOf(output)]
        /\ emitted' = [emitted EXCEPT ![terminalId] = Emit(@, events)]
        /\ UNCHANGED <<callbacks, detectVars, diffVars, useCaseVars, adapterVars>>

\* A pending timer expires and its callback runs.
IdleTimeout(h) ==
    /\ h \in DOMAIN timers
    /\ LET o == timers[h].state
           terminalId == timers[h].terminalId
           d == onIdleTimeout(heap[o].status)
           timers1 == MapDelete(timers, h)
           heap1 == [heap EXCEPT ![o].status = d.status]
           events == IF d.notify
                     THEN << [terminalId |-> terminalId, status |-> d.status] >>
                     ELSE <<>>
       IN  /\ timers' = timers1
           /\ heap' = Collect(heap1, states, timers1)
           /\ lastOp' = [op |-> "timeout", terminalId |-> terminalId,
                         output |-> <<>>, prev |-> heap[o].status,
                         currentStatus |-> "none", bufferStatus |-> "none",
                         cancelled |-> FALSE, events |-> events,
                         calls |-> IF d.notify
                                   THEN notifyChange(callbacks, terminalId, d.status)
                                   ELSE <<>>]
           /\ lastCall' = [lastCall EXCEPT ![terminalId].events = @ \o events]
           /\ emitted' = [emitted EXCEPT ![terminalId] = Emit(@, events)]
    /\ UNCHANGED <<states, callbacks, received, detectVars, diffVars, useCaseVars, adapterVars>>

\* A clear that cancels the timers of every terminal.
clearEveryTimer(tm, state) == <<>>

\* What clear does to the pending timers.
clearTimersLeaking(tm, state) == tm

clearTimers(tm, state) ==
    IF state.idleTimer # NoTimer THEN clearTimeout(tm, state.idleTimer) ELSE tm

Clear(terminalId) ==
    LET has == terminalId \in DOMAIN states
        timers1 == IF has THEN clearTimers(timers, heap[states[terminalId]]) ELSE timers
        states1 == MapDelete(states, terminalId)
    IN  /\ timers' = timers1
        /\ states' = states1
        /\ heap' = Collect(heap, states1, timers1)
        /\ lastOp' = [op |-> "clear", terminalId |-> terminalId,
                      output |-> <<>>, prev |-> getStatus(terminalId),
                      currentStatus |-> "none", bufferStatus |-> "none",
                      cancelled |-> timers1 # timers,
                      events |-> <<>>, calls |-> <<>>]
        /\ lastCall' = [lastCall EXCEPT ![terminalId] =
                          [op |-> "clear", currentStatus |-> "none",
                           bufferStatus |-> "none", events |-> <<>>]]
        /\ received' = [received EXCEPT ![terminalId] = <<>>]
        /\ emitted' = [emitted EXCEPT ![terminalId] = NoEvent]
        /\ UNCHANGED <<callbacks, detectVars, diffVars, useCaseVars, adapterVars>>

OnStatusChange(callback) ==
    /\ Len(callbacks) < Len(Listeners)
    /\ callback = Listeners[Len(callbacks) + 1]
    /\ callbacks' = Append(callbacks, callback)
    /\ lastOp' = [op |-> "onStatusChange", terminalId |-> "none", output |-> <<>>,
                  prev |-> "none",
                  currentStatus |-> "none", bufferStatus |-> "none",
                  cancelled |-> FALSE, events |-> <<>>, calls |-> <<>>]
    /\ UNCHANGED <<states, heap, timers, lastCall, received, emitted, detectVars, diffVars,
                   useCaseVars, adapterVars>>

Next ==
    \/ \E terminalId \in Ids, aiType \in TrackerAiTypes, output \in TrackerChunks :
          /\ TotalBuffered(heap) + Len(newLinesOf(output)) <= MaxBuffered
          /\ ProcessOutput(terminalId, aiType, output)
    \/ \E h \in Handles : IdleTimeout(h)
    \/ \E terminalId \in Ids : Clear(terminalId)
    \/ \E callback \in Range(Listeners) : OnStatusChange(callback)

Init == TrackerInit /\ DetectIdle /\ DiffIdle /\ UseCaseIdle /\ AdapterIdle
Spec == Init /\ [][Next]_vars

\* SpecStream: one terminal that receives a long stream of output, all of it
\* processed with one profile.
StreamAiType == "claude"

StreamNext ==
    \/ \E output \in StreamChunks :
          /\ Len(received["t1"]) + Len(newLinesOf(output)) <= MaxReceived
          /\ ProcessOutput("t1", StreamAiType, output)
    \/ \E h \in Handles : IdleTimeout(h)
    \/ Clear("t1")

SpecStream == Init /\ [][StreamNext]_vars

\* SpecAnswer: one terminal that is asked a question and receives chunks of
\* two lines, a cue and a prompt, while it waits.
MaxAnswered == 4       \* most lines the terminal receives

AnswerChunks ==
    { <<"(y/n)">>, <<">">>, <<"Reading">>,
      <<"(y/n)", NL, ">">>, <<">", NL, "(y/n)">>, <<"Reading", NL, ">">> }

AnswerNext ==
    \/ \E aiType \in TrackerAiTypes, output \in AnswerChunks :
          /\ Len(received["t1"]) + Len(newLinesOf(output)) <= MaxAnswered
          /\ ProcessOutput("t1", aiType, output)
    \/ \E h \in Handles : IdleTimeout(h)
    \/ Clear("t1")

SpecAnswer == Init /\ [][AnswerNext]_vars

\* SpecDecay: the same terminal under the scheduling of the event loop: a
\* timer that stays pending expires and its callback runs.  Nothing obliges
\* the terminal to produce output or the extension to call clear.
SpecDecay == Init /\ [][AnswerNext]_vars /\ WF_vars(\E h \in Handles : IdleTimeout(h))

----------------------------------------------------------------------------
(* SpecDetect *)

DetectInit ==
    /\ dAiType \in AITypes
    /\ dOutput \in TextsUpTo(DetectAlphabet, MaxTextLen)
    /\ dStatus = "none"
    /\ dLines = <<>>
    /\ TrackerIdle /\ DiffIdle /\ UseCaseIdle /\ AdapterIdle

DetectNext == DetectCall
SpecDetect == DetectInit /\ [][DetectNext]_vars

----------------------------------------------------------------------------
(* Claims about detect *)

\* Some pattern of the group of the given status of aiType matches the
\* ANSI-stripped text.
GroupHit(aiType, status, text) ==
    LET groups == getPatternsForAI(aiType)
    IN  \E k \in 1..Len(groups) :
            /\ groups[k].status = status
            /\ GroupMatches(groups[k], stripAnsiCodes(text))

\* C1: for every profile and text, detect returns waiting when a waiting
\* pattern matches the stripped text, whatever else matches, and working when
\* no waiting pattern but a working pattern matches, even if an idle one does.
C1_PriorityLaw ==
    dStatus # "none" =>
        /\ GroupHit(dAiType, "waiting", dOutput) => dStatus = "waiting"
        /\ (~GroupHit(dAiType, "waiting", dOutput)
              /\ GroupHit(dAiType, "working", dOutput)) => dStatus = "working"

\* detect has run on a text with a waiting, a working and an idle cue.
C1_Witness ==
    /\ dStatus = "waiting"
    /\ GroupHit(dAiType, "working", dOutput)
    /\ GroupHit(dAiType, "idle", dOutput)

\* Some pattern of some group of aiType matches the ANSI-stripped text.
AnyHit(aiType, text) ==
    \E status \in { "waiting", "working", "idle", "inactive" } :
        GroupHit(aiType, status, text)

\* C21: for every profile and text, detect returns a status (it never fails),
\* inactive if and only if no pattern of any group of the profile matches the
\* ANSI-stripped text, and otherwise the status of a group that has a
\* matching pattern.
C21_InactiveIffNoMatch ==
    dStatus # "none" =>
        /\ dStatus \in { "waiting", "working", "idle", "inactive" }
        /\ dStatus = "inactive" <=> ~AnyHit(dAiType, dOutput)
        /\ dStatus # "inactive" => GroupHit(dAiType, dStatus, dOutput)

\* detect has run on a text with an escape sequence that, once stripped, only
\* a pattern of the lowest-priority group matches.
C21_Witness ==
    /\ dStatus = "idle"
    /\ CSI \in Range(dOutput)
    /\ ~GroupHit(dAiType, "waiting", dOutput)
    /\ ~GroupHit(dAiType, "working", dOutput)

----------------------------------------------------------------------------
(* Claims about the tracker *)

PendingFor(terminalId) == { h \in DOMAIN timers : timers[h].terminalId = terminalId }

Event(terminalId, status) == [terminalId |-> terminalId, status |-> status]

\* C2: a processOutput whose chunk detect classifies as idle leaves the
\* terminal idle, whatever the previous status and the buffer; it emits a
\* change event exactly when the previous status was not idle, and it leaves
\* no idle timer pending.
C2_IdleChunkWins ==
    (lastOp.op = "processOutput" /\ lastOp.currentStatus = "idle") =>
        /\ getStatus(lastOp.terminalId) = "idle"
        /\ lastOp.events =
             IF lastOp.prev # "idle"
             THEN << Event(lastOp.terminalId, "idle") >> ELSE <<>>
        /\ PendingFor(lastOp.terminalId) = {}

\* An idle chunk arrived at a terminal that was not idle, the buffer says
\* waiting, and the idle event was sent.
C2_Witness ==
    /\ lastOp.op = "processOutput"
    /\ lastOp.currentStatus = "idle"
    /\ lastOp.prev # "idle"
    /\ lastOp.bufferStatus = "waiting"
    /\ lastOp.events = << Event(lastOp.terminalId, "idle") >>

\* C3 (as claimed): a processOutput whose chunk detect classifies as waiting
\* leaves the terminal waiting at once, with exactly one waiting event if it
\* was not waiting before, for one-line and multi-line chunks alike.
C3_WaitingChunkWins ==
    (lastOp.op = "processOutput" /\ lastOp.currentStatus = "waiting") =>
        /\ getStatus(lastOp.terminalId) = "waiting"
        /\ lastOp.events =
             IF lastOp.prev # "waiting"
             THEN << Event(lastOp.terminalId, "waiting") >> ELSE <<>>
        /\ PendingFor(lastOp.terminalId) = {}

\* The last call for the terminal was a processOutput with a chunk that
\* matches no pattern.
NoPatternCall(terminalId) ==
    /\ lastCall[terminalId].op = "processOutput"
    /\ lastCall[terminalId].currentStatus = "inactive"

\* Since that call the terminal is working with its timer pending and no
\* event yet, or the timer has fired: idle, through exactly one idle event.
Decaying(terminalId) ==
    \/ /\ getStatus(terminalId) = "working"
       /\ Cardinality(PendingFor(terminalId)) = 1
       /\ lastCall[terminalId].events = <<>>
    \/ /\ getStatus(terminalId) = "idle"
       /\ PendingFor(terminalId) = {}
       /\ lastCall[terminalId].events = << Event(terminalId, "idle") >>

\* C4 (as claimed): from every state, after a processOutput with a chunk that
\* matches no pattern the terminal decays to idle: the 2000 ms timer is
\* pending, and once it has fired the status is idle through one idle event.
C4_DecayFromEveryState ==
    \A terminalId \in Ids : NoPatternCall(terminalId) => Decaying(terminalId)

\* C4 (amended): the same, when detectFromBuffer on the updated buffer does
\* not yield waiting.
C4_DecayUnlessWaiting ==
    \A terminalId \in Ids :
        (NoPatternCall(terminalId) /\ lastCall[terminalId].bufferStatus # "waiting")
            => Decaying(terminalId)

\* The timer armed by a no-pattern chunk has fired.
C4_Witness ==
    \E terminalId \in Ids :
        /\ NoPatternCall(terminalId)
        /\ lastCall[terminalId].bufferStatus # "waiting"
        /\ lastOp.op = "timeout" /\ lastOp.terminalId = terminalId
        /\ getStatus(terminalId) = "idle"

\* C5: after clear(id), getStatus(id) is inactive and no timer armed before
\* the clear fires an event for id: none is pending for id after the clear,
\* none has notified since, and every pending timer holds the current state
\* object of a tracked terminal.
C5_ClearIsFinal ==
    /\ \A terminalId \in Ids :
          lastCall[terminalId].op = "clear" =>
              /\ getStatus(terminalId) = "inactive"
              /\ PendingFor(terminalId) = {}
              /\ lastCall[terminalId].events = <<>>
    /\ \A h \in DOMAIN timers :
          /\ timers[h].terminalId \in DOMAIN states
          /\ states[timers[h].terminalId] = timers[h].state
          /\ heap[timers[h].state].idleTimer = h

\* clear has cancelled a pending timer of a working terminal.
C5_Witness ==
    /\ lastOp.op = "clear" /\ lastOp.cancelled /\ lastOp.prev = "working"
    /\ lastCall[lastOp.terminalId].op = "clear"

----------------------------------------------------------------------------
(* DiffService: computeDiff and longestCommonSubsequence *)
(* A line is a sequence of characters; lines are compared with ===.        *)

Max(x, y) == IF x >= y THEN x ELSE y

\* One row of the dp table: row[j + 1] = dp[i][j], from the row above.
RECURSIVE DpRow(_, _, _, _)
DpRow(above, ai, b, row) ==
    LET j == Len(row)      \* the column being filled: dp[i][j]
    IN  IF j > Len(b) THEN row
        ELSE DpRow(above, ai, b,
                   Append(row, IF ai = b[j] THEN above[j] + 1
                               ELSE Max(above[j + 1], row[j])))

\* The dp table: rows[i + 1][j + 1] = dp[i][j].
RECURSIVE DpRows(_, _, _)
DpRows(a, b, rows) ==
    LET i == Len(rows)
    IN  IF i > Len(a) THEN rows
        ELSE DpRows(a, b, Append(rows, DpRow(rows[i], a[i], b, <<0>>)))

DpTable(a, b) == DpRows(a, b, << [j \in 1..(Len(b) + 1) |-> 0] >>)

\* The backtracking loop with its comparison of dp[i-1][j] and dp[i][j-1]
\* turned round.
RECURSIVE BacktrackDownhill(_, _, _, _, _)
BacktrackDownhill(a, b, dp, i, j) ==
    IF ~(i > 0 /\ j > 0) THEN <<>>
    ELSE IF a[i] = b[j] THEN Append(BacktrackDownhill(a, b, dp, i - 1, j - 1), a[i])
    ELSE IF dp[i][j + 1] < dp[i + 1][j] THEN BacktrackDownhill(a, b, dp, i - 1, j)
    ELSE BacktrackDownhill(a, b, dp, i, j - 1)

\* The backtracking loop, from dp[i][j]; result.unshift builds it back to front.
RECURSIVE Backtrack(_, _, _, _, _)
Backtrack(a, b, dp, i, j) ==
    IF ~(i > 0 /\ j > 0) THEN <<>>
    ELSE IF a[i] = b[j] THEN Append(Backtrack(a, b, dp, i - 1, j - 1), a[i])
    ELSE IF dp[i][j + 1] > dp[i + 1][j] THEN Backtrack(a, b, dp, i - 1, j)
    ELSE Backtrack(a, b, dp, i, j - 1)

\* A backtrack that collects nothing.
lcsNothing(a, b) == <<>>

longestCommonSubsequence(a, b) == Backtrack(a, b, DpTable(a, b), Len(a), Len(b))

Entry(type, line) == [type |-> type, line |-> line]

\* The while loop of computeDiff; the indices are those of the code (from 0).
\* An iteration that takes no branch changes nothing, so the loop would never
\* end: the entry "spin" stands for that.
RECURSIVE DiffLoop(_, _, _, _, _, _)
DiffLoop(old, new, lcs, oldIdx, newIdx, lcsIdx) ==
    IF ~(oldIdx < Len(old) \/ newIdx < Len(new)) THEN <<>>
    ELSE IF lcsIdx < Len(lcs) /\ oldIdx < Len(old) /\ old[oldIdx + 1] = lcs[lcsIdx + 1]
    THEN IF newIdx < Len(new) /\ new[newIdx + 1] = lcs[lcsIdx + 1]
         THEN <<Entry("equal", old[oldIdx + 1])>>
                \o DiffLoop(old, new, lcs, oldIdx + 1, newIdx + 1, lcsIdx + 1)
         ELSE IF newIdx < Len(new)
         THEN <<Entry("insert", new[newIdx + 1])>>
                \o DiffLoop(old, new, lcs, oldIdx, newIdx + 1, lcsIdx)
         ELSE <<Entry("delete", old[oldIdx + 1])>>
                \o DiffLoop(old, new, lcs, oldIdx + 1, newIdx, lcsIdx)
    ELSE IF oldIdx < Len(old)
            /\ (lcsIdx >= Len(lcs) \/ old[oldIdx + 1] # lcs[lcsIdx + 1])
    THEN <<Entry("delete", old[oldIdx + 1])>>
           \o DiffLoop(old, new, lcs, oldIdx + 1, newIdx, lcsIdx)
    ELSE IF newIdx < Len(new)
    THEN <<Entry("insert", new[newIdx + 1])>>
           \o DiffLoop(old, new, lcs, oldIdx, newIdx + 1, lcsIdx)
    ELSE <<Entry("spin", <<>>)>>   \* no branch taken: the while loop never ends

\* computeDiff that takes a line for common as soon as the old side has it.
computeDiffOldOnly(old, new) ==
    LET lcs == longestCommonSubsequence(old, new)
        RECURSIVE Loop(_, _, _)
        Loop(oldIdx, newIdx, lcsIdx) ==
            IF ~(oldIdx < Len(old) \/ newIdx < Len(new)) THEN <<>>
            ELSE IF lcsIdx < Len(lcs) /\ oldIdx < Len(old)
                    /\ old[oldIdx + 1] = lcs[lcsIdx + 1]
            THEN <<Entry("equal", old[oldIdx + 1])>>
                   \o Loop(oldIdx + 1, newIdx + 1, lcsIdx + 1)
            ELSE IF oldIdx < Len(old)
            THEN <<Entry("delete", old[oldIdx + 1])>> \o Loop(oldIdx + 1, newIdx, lcsIdx)
            ELSE <<Entry("insert", new[newIdx + 1])>> \o Loop(oldIdx, newIdx + 1, lcsIdx)
    IN  Loop(0, 0, 0)

computeDiff(old, new) ==
    DiffLoop(old, new, longestCommonSubsequence(old, new), 0, 0, 0)

----------------------------------------------------------------------------
(* DiffService: formatAsUnifiedDiff *)

DigitChars == << "0", "1", "2", "3", "4", "5", "6", "7", "8", "9" >>

\* `${n}` for a number n >= 0: its decimal digits
RECURSIVE numberToString(_)
numberToString(n) ==
    IF n < 10 THEN << DigitChars[n + 1] >>
    ELSE numberToString(n \div 10) \o << DigitChars[(n % 10) + 1] >>

StartsWith(line, prefix) ==
    /\ Len(line) >= Len(prefix)
    /\ \A i \in 1..Len(prefix) : line[i] = prefix[i]

\* `@@ -${hunkStart},${oldCount} +${hunkStart},${newCount} @@`
HunkHeader(oldStart, oldCount, newStart, newCount) ==
    << "@", "@", SP, "-" >> \o numberToString(oldStart) \o << "," >> \o numberToString(oldCount)
      \o << SP, "+" >> \o numberToString(newStart) \o << "," >> \o numberToString(newCount)
      \o << SP, "@", "@" >>

\* The variables of formatAsUnifiedDiff before the loop.  `flushed` is a
\* history of the hunks emitted: for each its header, its lines, the index of
\* the entry that gave its first line and of the entry at which it was
\* flushed (one past the last entry for the final flush).
FormatStart ==
    [result |-> <<>>, hunkStart |-> -1, hunkLines |-> <<>>,
     oldLineNum |-> 1, newLineNum |-> 1, oldCount |-> 0, newCount |-> 0,
     first |-> 0, flushed |-> <<>>]

flushHunk(v, at) ==
    IF Len(v.hunkLines) > 0
    THEN LET header == HunkHeader(v.hunkStart, v.oldCount, v.hunkStart, v.newCount)
         IN  [v EXCEPT
                !.result = @ \o header \o <<NL>> \o Join(v.hunkLines) \o <<NL>>,
                !.hunkLines = <<>>, !.oldCount = 0, !.newCount = 0,
                !.flushed = Append(@, [header |-> header, lines |-> v.hunkLines,
                                       first |-> v.first, at |-> at])]
    ELSE v

\* hunkLines.push(line), remembering the entry of the first line of a hunk
PushLine(v, line, k) ==
    [v EXCEPT !.hunkLines = Append(@, line),
              !.first = IF Len(v.hunkLines) = 0 THEN k ELSE @]

IsContext(hunkLine) == StartsWith(hunkLine, <<SP>>)

\* One iteration of the loop, for entry k.
FormatEntry(v, entry, k) ==
    IF entry.type = "equal"
    THEN LET v1 == IF Len(v.hunkLines) > 0
                   THEN LET w == [PushLine(v, <<SP>> \o entry.line, k) EXCEPT
                                     !.oldCount = @ + 1, !.newCount = @ + 1]
                            contextCount ==
                                Len(SelectSeq(w.hunkLines, IsContext))
                        IN  IF contextCount >= 3 THEN flushHunk(w, k) ELSE w
                   ELSE v
         IN  [v1 EXCEPT !.oldLineNum = @ + 1, !.newLineNum = @ + 1]
    ELSE IF entry.type = "delete"
    THEN LET v1 == IF v.hunkStart = -1 THEN [v EXCEPT !.hunkStart = v.oldLineNum]
                   ELSE v
         IN  [PushLine(v1, <<"-">> \o entry.line, k) EXCEPT
                 !.oldCount = @ + 1, !.oldLineNum = @ + 1]
    ELSE LET v1 == IF v.hunkStart = -1 THEN [v EXCEPT !.hunkStart = v.newLineNum]
                   ELSE v
         IN  [PushLine(v1, <<"+">> \o entry.line, k) EXCEPT
                 !.newCount = @ + 1, !.newLineNum = @ + 1]

RECURSIVE FormatLoop(_, _, _)
FormatLoop(diff, k, v) ==
    IF k > Len(diff) THEN flushHunk(v, k)
    ELSE FormatLoop(diff, k + 1, FormatEntry(v, diff[k], k))

formatAsUnifiedDiff(diff) == FormatLoop(diff, 1, FormatStart).result

\* The history of the hunks formatAsUnifiedDiff emits for diff.
FlushedHunks(diff) == FormatLoop(diff, 1, FormatStart).flushed

----------------------------------------------------------------------------
(* DiffService: parseUnifiedDiff *)

Digit == { DigitChars[i] : i \in 1..Len(DigitChars) }

\* parseInt(digits, 10)
RECURSIVE parseInt(_)
parseInt(digits) ==
    IF Len(digits) = 0 THEN 0
    ELSE LET last == digits[Len(digits)]
             d == CHOOSE k \in 0..9 : DigitChars[k + 1] = last
         IN  10 * parseInt(SubSeq(digits, 1, Len(digits) - 1)) + d

Literal(t, i, lit) ==
    /\ i + Len(lit) - 1 <= Len(t)
    /\ \A k \in 1..Len(lit) : t[i + k - 1] = lit[k]

\* \d* from position i: the position after the digits
SkipDigits(t, i) == i + RunLen(t, i, Digit)

\* ,? from position i
SkipComma(t, i) == IF Literal(t, i, <<",">>) THEN i + 1 ELSE i

\* /@@ -(\d+),?\d* \+(\d+),?\d* @@(.*)/ tried at position i.  Each quantifier
\* is greedy and what follows it cannot start with what it consumes, so the
\* greedy attempt is the only one that can succeed.
HeaderAt(t, i) ==
    LET a1 == i + 4                                  \* group 1 is t[a1 .. c1 - 1]
        c1 == SkipDigits(t, a1)
        s1 == SkipDigits(t, SkipComma(t, c1))
        a2 == s1 + 2                                 \* group 2 is t[a2 .. c2 - 1]
        c2 == SkipDigits(t, a2)
        s2 == SkipDigits(t, SkipComma(t, c2))
    IN  IF /\ Literal(t, i, << "@", "@", SP, "-" >>)
           /\ c1 > a1
           /\ Literal(t, s1, << SP, "+" >>)
           /\ c2 > a2
           /\ Literal(t, s2, << SP, "@", "@" >>)
        THEN [ok |-> TRUE,
              old |-> parseInt(SubSeq(t, a1, c1 - 1)),
              new |-> parseInt(SubSeq(t, a2, c2 - 1))]
        ELSE [ok |-> FALSE, old |-> 0, new |-> 0]

\* line.match(...): the leftmost position at which the expression matches
MatchHeader(line) ==
    LET at == { i \in 1..Len(line) : HeaderAt(line, i).ok }
    IN  IF at = {} THEN [ok |-> FALSE, old |-> 0, new |-> 0]
        ELSE HeaderAt(line, CHOOSE i \in at : \A k \in at : i <= k)

IsMetadata(line) ==
    \/ StartsWith(line, << "d", "i", "f", "f", SP, "-", "-", "g", "i", "t" >>)
    \/ StartsWith(line, << "i", "n", "d", "e", "x", SP >>)
    \/ StartsWith(line, << "-", "-", "-" >>)
    \/ StartsWith(line, << "+", "+", "+" >>)
    \/ StartsWith(line, << "\\" >>)

\* The loop entered with a hunk already open instead of null.
ParseStartWithHunk ==
    [hunks |-> <<>>,
     objs |-> << [header |-> <<>>, oldStart |-> 0, newStart |-> 0, lines |-> <<>>] >>,
     currentHunk |-> 1,
     oldLineNum |-> 0, newLineNum |-> 0, additions |-> 0, deletions |-> 0]

\* The variables of parseUnifiedDiff before the loop.  A hunk is an object:
\* `objs` holds the hunks created, `hunks` and `currentHunk` refer to them by
\* index (0 is null).
ParseStart ==
    [hunks |-> <<>>, objs |-> <<>>, currentHunk |-> 0,
     oldLineNum |-> 0, newLineNum |-> 0, additions |-> 0, deletions |-> 0]

\* A DiffLine that carries both line numbers whatever its type.
DiffLineBothNumbers(type, line, v) ==
    [type |-> type,
     content |-> IF type = "context" /\ ~StartsWith(line, <<SP>>) THEN line
                 ELSE Tail(line),
     oldLineNumber |-> v.oldLineNum, newLineNumber |-> v.newLineNum]

\* The object literals with the counters incremented before they are read
\* (++oldLineNum, ++newLineNum).
DiffLinePreIncrement(type, line, v) ==
    IF type = "addition"
    THEN [type |-> "addition", content |-> Tail(line),
          newLineNumber |-> v.newLineNum + 1]
    ELSE IF type = "deletion"
    THEN [type |-> "deletion", content |-> Tail(line),
          oldLineNumber |-> v.oldLineNum + 1]
    ELSE [type |-> "context",
          content |-> IF StartsWith(line, <<SP>>) THEN Tail(line) ELSE line,
          oldLineNumber |-> v.oldLineNum + 1, newLineNumber |-> v.newLineNum + 1]

\* The DiffLine object built for a line of a hunk.
DiffLineOf(type, line, v) ==
    IF type = "addition"
    THEN [type |-> "addition", content |-> Tail(line),
          newLineNumber |-> v.newLineNum]
    ELSE IF type = "deletion"
    THEN [type |-> "deletion", content |-> Tail(line),
          oldLineNumber |-> v.oldLineNum]
    ELSE [type |-> "context",
          content |-> IF StartsWith(line, <<SP>>) THEN Tail(line) ELSE line,
          oldLineNumber |-> v.oldLineNum, newLineNumber |-> v.newLineNum]

\* One iteration of the loop.
ParseLine(v, line) ==
    IF IsMetadata(line) THEN v
    ELSE IF StartsWith(line, << "@", "@" >>)
    THEN LET v1 == IF v.currentHunk # 0
                   THEN [v EXCEPT !.hunks = Append(@, v.currentHunk)]
                   ELSE v
             match == MatchHeader(line)
         IN  IF match.ok
             THEN [v1 EXCEPT
                     !.oldLineNum = match.old, !.newLineNum = match.new,
                     !.objs = Append(@, [header |-> line, oldStart |-> match.old,
                                         newStart |-> match.new, lines |-> <<>>]),
                     !.currentHunk = Len(v.objs) + 1]
             ELSE v1
    ELSE IF v.currentHunk = 0 THEN v
    ELSE IF StartsWith(line, <<"+">>)
    THEN [v EXCEPT
            !.objs[v.currentHunk].lines = Append(@, DiffLineOf("addition", line, v)),
            !.newLineNum = @ + 1, !.additions = @ + 1]
    ELSE IF StartsWith(line, <<"-">>)
    THEN [v EXCEPT
            !.objs[v.currentHunk].lines = Append(@, DiffLineOf("deletion", line, v)),
            !.oldLineNum = @ + 1, !.deletions = @ + 1]
    ELSE [v EXCEPT
            !.objs[v.currentHunk].lines = Append(@, DiffLineOf("context", line, v)),
            !.oldLineNum = @ + 1, !.newLineNum = @ + 1]

RECURSIVE ParseLoop(_, _, _)
ParseLoop(lines, k, v) ==
    IF k > Len(lines) THEN v ELSE ParseLoop(lines, k + 1, ParseLine(v, lines[k]))

EmptyDiffResult(file) ==
    [file |-> file, hunks |-> <<>>, stats |-> [additions |-> 0, deletions |-> 0]]

\* After the loop: the open hunk is pushed and the result is built from the
\* variables v of the loop.
ParseResult(file, v) ==
    LET hs == IF v.currentHunk # 0 THEN Append(v.hunks, v.currentHunk)
              ELSE v.hunks
    IN  [file |-> file,
         hunks |-> [i \in 1..Len(hs) |-> v.objs[hs[i]]],
         stats |-> [additions |-> v.additions, deletions |-> v.deletions]]

parseUnifiedDiff(file, diffText) ==
    IF \A i \in 1..Len(diffText) : diffText[i] \in Whitespace
    THEN EmptyDiffResult(file)
    ELSE ParseResult(file, ParseLoop(Split(diffText), 1, ParseStart))

----------------------------------------------------------------------------
(* SpecDiff: the diff pipeline applied to one pair of line sequences *)

MaxDiffLen == 5

DiffLineKinds == { <<"a">>, <<"b">> }

File == "file.ts"

DiffInit ==
    /\ oldLines \in TextsUpTo(DiffLineKinds, MaxDiffLen)
    /\ newLines \in TextsUpTo(DiffLineKinds, MaxDiffLen)
    /\ content = <<>>
    /\ diffStage = "input"
    /\ diffEntries = <<>> /\ formatted = <<>> /\ diffResult = Null
    /\ TrackerIdle /\ DetectIdle /\ UseCaseIdle /\ AdapterIdle

ComputeDiff ==
    /\ diffStage = "input"
    /\ diffEntries' = computeDiff(oldLines, newLines)
    /\ diffStage' = "diffed"
    /\ UNCHANGED <<oldLines, newLines, formatted, diffResult, content, trackerVars,
                   detectVars, useCaseVars, adapterVars>>

FormatAsUnifiedDiff ==
    /\ diffStage = "diffed"
    /\ formatted' = formatAsUnifiedDiff(diffEntries)
    /\ diffStage' = "formatted"
    /\ UNCHANGED <<oldLines, newLines, diffEntries, diffResult, content, trackerVars,
                   detectVars, useCaseVars, adapterVars>>

ParseUnifiedDiff ==
    /\ diffStage = "formatted"
    /\ diffResult' = parseUnifiedDiff(File, formatted)
    /\ diffStage' = "parsed"
    /\ UNCHANGED <<oldLines, newLines, diffEntries, formatted, content, trackerVars,
                   detectVars, useCaseVars, adapterVars>>

DiffNext == ComputeDiff \/ FormatAsUnifiedDiff \/ ParseUnifiedDiff

SpecDiff == DiffInit /\ [][DiffNext]_vars

\* SpecSigned: the same pipeline on contents whose lines begin with the signs
\* the unified format uses as prefixes.
MaxSignedLen == 2

SignedLineKinds == { <<"a">>, <<"+">>, <<"-">>, <<"+", "+">>, <<"-", "-">> }

SignedInit ==
    /\ oldLines \in TextsUpTo(SignedLineKinds, MaxSignedLen)
    /\ newLines \in TextsUpTo(SignedLineKinds, MaxSignedLen)
    /\ content = <<>>
    /\ diffStage = "input"
    /\ diffEntries = <<>> /\ formatted = <<>> /\ diffResult = Null
    /\ TrackerIdle /\ DetectIdle /\ UseCaseIdle /\ AdapterIdle

SpecSigned == SignedInit /\ [][DiffNext]_vars

----------------------------------------------------------------------------
(* Claims about DiffService, under SpecDiff *)

Side(diff, types) ==
    LET Keep(e) == e.type \in types
        kept == SelectSeq(diff, Keep)
    IN  [i \in 1..Len(kept) |-> kept[i].line]

Diffed == diffStage \in { "diffed", "formatted", "parsed" }

\* C7: computeDiff ends, and the equal and delete operations of its result
\* spell oldLines in order while the equal and insert operations spell
\* newLines in order.
C7_DiffSpellsBothSides ==
    Diffed =>
        /\ \A i \in 1..Len(diffEntries) :
              diffEntries[i].type \in { "equal", "delete", "insert" }
        /\ Len(diffEntries) <= Len(oldLines) + Len(newLines)
        /\ Side(diffEntries, { "equal", "delete" }) = oldLines
        /\ Side(diffEntries, { "equal", "insert" }) = newLines

\* a diff where a common line sits between a deletion and an insertion
C7_Witness ==
    /\ Diffed
    /\ \E i, j, k \in 1..Len(diffEntries) :
          /\ i < j /\ j < k
          /\ diffEntries[i].type = "delete"
          /\ diffEntries[j].type = "equal"
          /\ diffEntries[k].type = "insert"

\* The value of oldLineNum / newLineNum when the loop reaches entry k
OldLineNo(diff, k) ==
    1 + Cardinality({ i \in 1..(k - 1) : diff[i].type \in { "equal", "delete" } })

NewLineNo(diff, k) ==
    1 + Cardinality({ i \in 1..(k - 1) : diff[i].type \in { "equal", "insert" } })

\* C8: in every hunk formatAsUnifiedDiff emits, later hunks included, the
\* header's oldStart is the old-side line number of the hunk's first line and
\* its newStart is the new-side line number of that line.
C8_HeaderStartsAtFirstLine ==
    Diffed =>
        \A n \in 1..Len(FlushedHunks(diffEntries)) :
            LET h == FlushedHunks(diffEntries)[n]
                m == MatchHeader(h.header)
            IN  /\ m.ok
                /\ m.old = OldLineNo(diffEntries, h.first)
                /\ m.new = NewLineNo(diffEntries, h.first)

RECURSIVE TrailingContext(_)
TrailingContext(hunkLines) ==
    IF Len(hunkLines) > 0 /\ IsContext(hunkLines[Len(hunkLines)])
    THEN 1 + TrailingContext(SubSeq(hunkLines, 1, Len(hunkLines) - 1))
    ELSE 0

\* C9: a hunk is flushed exactly when 3 equal lines in a row have followed its
\* last change: no hunk ends with more than 3 context lines, and a hunk that
\* is closed before the operation sequence ends has 3 of them at its end.
C9_FlushAtThreeTrailing ==
    Diffed =>
        \A n \in 1..Len(FlushedHunks(diffEntries)) :
            LET h == FlushedHunks(diffEntries)[n]
            IN  /\ TrailingContext(h.lines) <= 3
                /\ h.at < Len(diffEntries) => TrailingContext(h.lines) = 3

\* C10: parsing the rendering of the diff from no line to a non-empty L gives
\* one hunk, with oldStart 0, whose lines are all additions, and
\* stats.additions is the length of L.
C10_NewFileRoundTrip ==
    (diffStage = "parsed" /\ oldLines = <<>> /\ newLines # <<>>) =>
        /\ Len(diffResult.hunks) = 1
        /\ diffResult.hunks[1].oldStart = 0
        /\ \A i \in 1..Len(diffResult.hunks[1].lines) :
              diffResult.hunks[1].lines[i].type = "addition"
        /\ diffResult.stats.additions = Len(newLines)

----------------------------------------------------------------------------
(* SpecNewFile: generateNewFileStructuredDiff applied to one content *)

\* `@@ -0,0 +1,${lines.length} @@ New file\n${fakeDiff}`, or '' for no content
generateNewFileDiff(text) ==
    IF text = <<>> THEN <<>>
    ELSE LET lines    == Split(text)
             fakeDiff == Join([i \in 1..Len(lines) |-> <<"+">> \o lines[i]])
         IN  << "@", "@", SP, "-", "0", ",", "0", SP, "+", "1", "," >>
               \o numberToString(Len(lines))
               \o << SP, "@", "@", SP, "N", "e", "w", SP, "f", "i", "l", "e", NL >>
               \o fakeDiff

generateNewFileStructuredDiff(file, text) ==
    parseUnifiedDiff(file, generateNewFileDiff(text))

MaxContentLen == 3

ContentAlphabet == { "a", "+", "-", SP, NL }

NewFileInit ==
    /\ content \in TextsUpTo(ContentAlphabet, MaxContentLen)
    /\ oldLines = <<>> /\ newLines = <<>>
    /\ diffStage = "input"
    /\ diffEntries = <<>> /\ formatted = <<>> /\ diffResult = Null
    /\ TrackerIdle /\ DetectIdle /\ UseCaseIdle /\ AdapterIdle

GenerateNewFileDiff ==
    /\ diffStage = "input"
    /\ formatted' = generateNewFileDiff(content)
    /\ diffStage' = "formatted"
    /\ UNCHANGED <<oldLines, newLines, content, diffEntries, diffResult, trackerVars,
                   detectVars, useCaseVars, adapterVars>>

NewFileNext == GenerateNewFileDiff \/ ParseUnifiedDiff

SpecNewFile == NewFileInit /\ [][NewFileNext]_vars

\* C11: for a non-empty content, generateNewFileStructuredDiff gives one hunk,
\* with oldStart 0 and newStart 1, whose lines are the lines of the content in
\* order, each an addition numbered from 1, with stats.additions the number of
\* lines and stats.deletions 0, whatever the lines begin with.
C11_NewFileLinesAllAdditions ==
    (diffStage = "parsed" /\ content # <<>>) =>
        LET lines == Split(content)
        IN  /\ Len(diffResult.hunks) = 1
            /\ diffResult.hunks[1].oldStart = 0
            /\ diffResult.hunks[1].newStart = 1
            /\ diffResult.hunks[1].lines =
                 [i \in 1..Len(lines) |->
                    [type |-> "addition", content |-> lines[i], newLineNumber |-> i]]
            /\ diffResult.stats = [additions |-> Len(lines), deletions |-> 0]

----------------------------------------------------------------------------
(* SpecParse: parseUnifiedDiff applied to one text *)

MaxParseLines == 3

\* The lines of the texts parsed: hunk headers (with and without counts, with
\* a section text), headers the expression does not match, metadata, hunk
\* lines of each kind, a line with no prefix and an empty line.
ParseLineKinds ==
    { << "@", "@", SP, "-", "1", SP, "+", "1", SP, "@", "@" >>,
      << "@", "@", SP, "-", "2", ",", "3", SP, "+", "4", ",", "5", SP, "@", "@", SP, "f" >>,
      << "@", "@" >>,
      << "@", "@", SP, "-", "a", SP, "+", "1", SP, "@", "@" >>,
      << "+", "a" >>, << "-", "a" >>, << SP, "a" >>, << "a" >>, <<>>,
      << "+", "+", "+", SP, "b" >>, << "-", "-", "-", SP, "a" >>, << "\\", SP, "N" >> }

ParseInit ==
    /\ formatted \in { Join(ls) : ls \in TextsUpTo(ParseLineKinds, MaxParseLines) }
    /\ oldLines = <<>> /\ newLines = <<>> /\ content = <<>>
    /\ diffStage = "formatted"
    /\ diffEntries = <<>> /\ diffResult = Null
    /\ TrackerIdle /\ DetectIdle /\ UseCaseIdle /\ AdapterIdle

ParseNext == ParseUnifiedDiff

SpecParse == ParseInit /\ [][ParseNext]_vars

RECURSIVE SumSeq(_)
SumSeq(ns) == IF Len(ns) = 0 THEN 0 ELSE Head(ns) + SumSeq(Tail(ns))

\* The number of lines of the type over all the hunks of a result.
LinesOfType(result, type) ==
    LET OfType(l) == l.type = type
    IN  SumSeq([i \in 1..Len(result.hunks) |->
                  Len(SelectSeq(result.hunks[i].lines, OfType))])

\* C12: in the result of parseUnifiedDiff, stats.additions is the number of
\* addition lines over all the hunks and stats.deletions the number of
\* deletion lines, also for texts with '@@' lines that are not headers.
C12_StatsMatchHunks ==
    diffStage = "parsed" =>
        /\ diffResult.stats.additions = LinesOfType(diffResult, "addition")
        /\ diffResult.stats.deletions = LinesOfType(diffResult, "deletion")

\* C13: every DiffLine of a result carries newLineNumber alone when it is an
\* addition, oldLineNumber alone when it is a deletion, both when it is
\* context.
C13_LineNumbersByType ==
    diffStage = "parsed" =>
        \A i \in 1..Len(diffResult.hunks) :
            \A k \in 1..Len(diffResult.hunks[i].lines) :
                LET l == diffResult.hunks[i].lines[k]
                    numbers == DOMAIN l \cap { "oldLineNumber", "newLineNumber" }
                IN  /\ l.type = "addition" => numbers = { "newLineNumber" }
                    /\ l.type = "deletion" => numbers = { "oldLineNumber" }
                    /\ l.type = "context" =>
                           numbers = { "oldLineNumber", "newLineNumber" }

\* a hunk with an addition and a deletion, next to a context line
C13_Witness ==
    /\ diffStage = "parsed"
    /\ \E i \in 1..Len(diffResult.hunks) :
          LET types == { diffResult.hunks[i].lines[k].type :
                           k \in 1..Len(diffResult.hunks[i].lines) }
          IN  \/ types = { "addition", "deletion" }
              \/ types = { "addition", "context" }

----------------------------------------------------------------------------
(* DiffService: generateStructuredDiff, and the deleted-file diff *)

\* if (diff.length === 0) return ''; return this.formatAsUnifiedDiff(diff);
RenderDiff(diff) == IF Len(diff) = 0 THEN <<>> ELSE formatAsUnifiedDiff(diff)

generateUnifiedDiff(oldContent, newContent) ==
    IF oldContent = newContent THEN <<>>
    ELSE RenderDiff(computeDiff(Split(oldContent), Split(newContent)))

generateStructuredDiff(file, oldContent, newContent) ==
    parseUnifiedDiff(file, generateUnifiedDiff(oldContent, newContent))

\* The deleted-file diff, the mirror image of generateNewFileDiff: one hunk
\* `@@ -1,N +0,0 @@` in which every line of the content is a deletion.
generateDeletedFileDiff(text) ==
    IF text = <<>> THEN <<>>
    ELSE LET lines == Split(text)
         IN  << "@", "@", SP, "-", "1", "," >> \o numberToString(Len(lines))
               \o << SP, "+", "0", ",", "0", SP, "@", "@", NL >>
               \o Join([i \in 1..Len(lines) |-> <<"-">> \o lines[i]])

generateDeletedFileStructuredDiff(file, text) ==
    parseUnifiedDiff(file, generateDeletedFileDiff(text))

\* diffResult.chunks: the hunks of a result
Chunks(result) == result.hunks

----------------------------------------------------------------------------
(* GenerateDiffUseCase *)

\* What execute gives back.
ReturnNull       == [kind |-> "null"]
Return(result)   == [kind |-> "diff", value |-> result]
Throw(by)        == [kind |-> "throws", by |-> by]

\* The try block of generateSnapshotDiff without its catch: a failure of
\* fileExists or readFile leaves generateSnapshotDiff.
readCurrentNoCatch(p) ==
    IF p.fileExists = "throws"
    THEN [calls |-> <<"fileExists">>, failed |-> FALSE, thrown |-> TRUE,
          fileExists |-> FALSE, currentContent |-> <<>>]
    ELSE IF p.fileExists = "true"
    THEN IF p.readFails
         THEN [calls |-> <<"fileExists", "readFile">>, failed |-> FALSE,
               thrown |-> TRUE, fileExists |-> TRUE, currentContent |-> <<>>]
         ELSE [calls |-> <<"fileExists", "readFile">>, failed |-> FALSE,
               thrown |-> FALSE, fileExists |-> TRUE,
               currentContent |-> p.fileContent]
    ELSE [calls |-> <<"fileExists">>, failed |-> FALSE, thrown |-> FALSE,
          fileExists |-> FALSE, currentContent |-> <<>>]

\* The try block of generateSnapshotDiff: fileExists, then readFile if the
\* file exists; `failed` says that the catch clause was entered.
readCurrent(p) ==
    IF p.fileExists = "throws"
    THEN [calls |-> <<"fileExists">>, failed |-> TRUE, thrown |-> FALSE,
          fileExists |-> FALSE, currentContent |-> <<>>]
    ELSE IF p.fileExists = "true"
    THEN IF p.readFails
         THEN [calls |-> <<"fileExists", "readFile">>, failed |-> TRUE,
               thrown |-> FALSE, fileExists |-> TRUE, currentContent |-> <<>>]
         ELSE [calls |-> <<"fileExists", "readFile">>, failed |-> FALSE,
               thrown |-> FALSE, fileExists |-> TRUE,
               currentContent |-> p.fileContent]
    ELSE [calls |-> <<"fileExists">>, failed |-> FALSE, thrown |-> FALSE,
          fileExists |-> FALSE, currentContent |-> <<>>]

\* generateSnapshotDiff after the try block, cur being what the block left:
\* the DiffResult returned (or the failure that leaves it).  p.snapshot is
\* <<>> for undefined, else <<content>>.
SnapshotOut(relativePath, p, cur) ==
    IF cur.thrown THEN Throw("fileSystem")
    ELSE IF cur.failed THEN Return(EmptyDiffResult(relativePath))
    ELSE IF p.snapshot = <<>>
    THEN IF cur.currentContent = <<>>
         THEN Return(EmptyDiffResult(relativePath))
         ELSE Return(generateNewFileStructuredDiff(relativePath, cur.currentContent))
    ELSE IF ~cur.fileExists \/ cur.currentContent = <<>>
    THEN Return(generateDeletedFileStructuredDiff(relativePath, p.snapshot[1]))
    ELSE Return(generateStructuredDiff(relativePath, p.snapshot[1],
                                       cur.currentContent))

SnapshotRun(relativePath, p, cur) ==
    [calls |-> <<"findByPath", "toAbsolutePath">> \o cur.calls,
     out |-> SnapshotOut(relativePath, p, cur)]

\* generateSnapshotDiff: the calls made and what comes out.
generateSnapshotDiff(relativePath, p) == SnapshotRun(relativePath, p, readCurrent(p))

\* The else branch of execute: getDiff, then parseUnifiedDiff.
gitDiff(relativePath, p) ==
    IF p.getDiffFails
    THEN [calls |-> <<"getDiff">>, out |-> Throw("getDiff")]
    ELSE [calls |-> <<"getDiff">>,
          out |-> Return(parseUnifiedDiff(relativePath, p.rawDiff))]

\* A test of the snapshot found instead of snapshotRepository.has.
useSnapshotIfFound(p) == p.snapshot # <<>>

\* if (this.snapshotRepository.has(relativePath))
useSnapshot(p) == p.has

\* A return of the result whatever its chunks.
returnAsIs(out) == out

\* if (diffResult.chunks.length === 0) return null; return diffResult;
noneIfEmpty(out) ==
    IF out.kind = "diff" /\ Len(Chunks(out.value)) = 0 THEN ReturnNull ELSE out

\* The end of execute, branch being what the branch taken did.
Finish(branch) ==
    [calls |-> <<"getWorkspaceRoot", "has">> \o branch.calls,
     out |-> noneIfEmpty(branch.out)]

execute(relativePath, p) ==
    IF ~p.workspaceRoot
    THEN [calls |-> <<"getWorkspaceRoot">>, out |-> ReturnNull]
    ELSE Finish(IF useSnapshot(p) THEN generateSnapshotDiff(relativePath, p)
                ELSE gitDiff(relativePath, p))

----------------------------------------------------------------------------
(* SpecUseCase: execute applied to one path, for every answer of the ports *)

MaxFileLines == 2

\* File and snapshot contents: '' and the texts of up to MaxFileLines lines.
FileLineKinds == { <<"a">>, << "+", "+" >> }
Contents ==
    { Join(ls) : ls \in TextsUpTo(FileLineKinds, MaxFileLines) }

\* Texts that git gives: none, a diff with a hunk, text without a hunk.
RawDiffs ==
    { <<>>,
      << "@", "@", SP, "-", "1", SP, "+", "1", SP, "@", "@", NL, "-", "a", NL, "+", "b" >>,
      << "a" >> }

Ports ==
    [workspaceRoot : BOOLEAN,            \* getWorkspaceRoot() gives a root
     has           : BOOLEAN,            \* snapshotRepository.has
     snapshot      : { <<>> } \cup { <<c>> : c \in Contents },   \* findByPath
     fileExists    : { "true", "false", "throws" },
     readFails     : BOOLEAN,            \* readFile throws
     fileContent   : Contents,           \* readFile otherwise
     getDiffFails  : BOOLEAN,            \* getDiff throws
     rawDiff       : RawDiffs]           \* getDiff otherwise

UseCaseInit ==
    /\ ports \in Ports
    /\ ucCalls = <<>>
    /\ ucResult = [kind |-> "none"]
    /\ TrackerIdle /\ DetectIdle /\ DiffIdle /\ AdapterIdle

Execute ==
    /\ ucResult.kind = "none"
    /\ \E run \in { execute(File, ports) } :
          ucCalls' = run.calls /\ ucResult' = run.out
    /\ UNCHANGED <<ports, trackerVars, detectVars, diffVars, adapterVars>>

UseCaseNext == Execute

SpecUseCase == UseCaseInit /\ [][UseCaseNext]_vars

Executed == ucResult.kind # "none"

Called(call) == \E i \in 1..Len(ucCalls) : ucCalls[i] = call

\* The file system failed while the current file was checked or read.
ReadFailed ==
    \/ ports.fileExists = "throws"
    \/ ports.fileExists = "true" /\ ports.readFails

\* C14: with a snapshot with content registered, a failure to check or read
\* the current file makes execute return the deleted-file diff of the
\* snapshot content (not none, not a failure).
C14_ReadFailureIsAbsence ==
    (/\ Executed /\ ports.workspaceRoot /\ ports.has
     /\ ports.snapshot # <<>> /\ ports.snapshot[1] # <<>>
     /\ ReadFailed)
    => ucResult = Return(generateDeletedFileStructuredDiff(File, ports.snapshot[1]))

\* The parse of the text git gave.
ParsedRawDiff == parseUnifiedDiff(File, ports.rawDiff)

\* C15 (as claimed): execute calls getDiff exactly when no snapshot is
\* registered for the path, and then returns the parse of the text.
C15_GitIffNoSnapshot ==
    Executed =>
        /\ Called("getDiff") <=> ~ports.has
        /\ (Called("getDiff") /\ ~ports.getDiffFails) =>
               ucResult = Return(ParsedRawDiff)

\* C15 (amended): execute calls getDiff exactly when a workspace root is
\* given and no snapshot is registered for the path, and then returns the
\* parse of the text, or none when the parse has no hunk; with a snapshot
\* registered getDiff is never called.
C15_GitIffRootAndNoSnapshot ==
    Executed =>
        /\ Called("getDiff") <=> (ports.workspaceRoot /\ ~ports.has)
        /\ (Called("getDiff") /\ ~ports.getDiffFails) =>
               ucResult = IF Len(ParsedRawDiff.hunks) = 0 THEN ReturnNull
                          ELSE Return(ParsedRawDiff)
        /\ ports.has => ~Called("getDiff")
        /\ ~ports.workspaceRoot =>
               ucResult = ReturnNull /\ ucCalls = <<"getWorkspaceRoot">>

\* git was asked although a snapshot could be found, and its diff was returned
C15_Witness ==
    /\ Executed /\ Called("getDiff")
    /\ ports.snapshot # <<>>
    /\ ucResult.kind = "diff"

\* The current file is there, was read, and has content.
FilePresent ==
    ports.fileExists = "true" /\ ~ports.readFails /\ ports.fileContent # <<>>

\* C16: execute returns none whenever the diff has no hunk, so a DiffResult
\* it returns has at least one hunk; a snapshot equal to the current content
\* and an empty text from git both give none.
C16_NoneWhenNoHunk ==
    Executed =>
        /\ ucResult.kind = "diff" => Len(ucResult.value.hunks) >= 1
        /\ (/\ ports.workspaceRoot /\ ports.has /\ FilePresent
            /\ ports.snapshot = << ports.fileContent >>) => ucResult = ReturnNull
        /\ (/\ ports.workspaceRoot /\ ~ports.has /\ ~ports.getDiffFails
            /\ ports.rawDiff = <<>>) => ucResult = ReturnNull

\* a snapshot equal to the content of the file gave none
C16_Witness ==
    /\ Executed /\ ports.workspaceRoot /\ ports.has /\ FilePresent
    /\ ports.snapshot = << ports.fileContent >>
    /\ ucResult = ReturnNull

AllOfType(result, type, lines) ==
    /\ Len(result.hunks) = 1
    /\ Len(result.hunks[1].lines) = Len(lines)
    /\ \A i \in 1..Len(lines) :
          /\ result.hunks[1].lines[i].type = type
          /\ result.hunks[1].lines[i].content = lines[i]

\* C17: with a snapshot registered (and the file system answering), execute
\* takes one of four branches: no snapshot content and no file content, no
\* diff; no snapshot content and file content, the new-file diff (every
\* current line an addition); snapshot content and no file content, the
\* deleted-file diff (every snapshot line a deletion); both, the line diff
\* between the two.
C17_FourBranches ==
    (Executed /\ ports.workspaceRoot /\ ports.has /\ ~ReadFailed) =>
        /\ (ports.snapshot = <<>> /\ ~FilePresent) => ucResult = ReturnNull
        /\ (ports.snapshot = <<>> /\ FilePresent) =>
               /\ ucResult.kind = "diff"
               /\ AllOfType(ucResult.value, "addition", Split(ports.fileContent))
        /\ (ports.snapshot # <<>> /\ ports.snapshot # << <<>> >> /\ ~FilePresent) =>
               /\ ucResult.kind = "diff"
               /\ AllOfType(ucResult.value, "deletion", Split(ports.snapshot[1]))
        /\ (ports.snapshot # <<>> /\ ports.snapshot # << <<>> >> /\ FilePresent) =>
               ucResult = noneIfEmpty(Return(
                   generateStructuredDiff(File, ports.snapshot[1], ports.fileContent)))

----------------------------------------------------------------------------
(* SpecBuffer: detectFromBuffer applied to one buffer *)

MaxBufferLen == 4

\* The lines of the buffers: no cue, a waiting, a working and an idle cue,
\* and the two halves of a cue that only the joined lines show.
BufferLineKinds ==
    { <<LETTER>>, <<"(y/n)">>, <<"Reading">>, <<">">>, <<SEND_GLYPH>>, <<"send">> }

BufferInit ==
    /\ dAiType \in AITypes
    /\ dLines \in TextsUpTo(BufferLineKinds, MaxBufferLen)
    /\ dOutput = <<>>
    /\ dStatus = "none"
    /\ TrackerIdle /\ DiffIdle /\ UseCaseIdle /\ AdapterIdle

DetectFromBufferCall ==
    /\ dStatus = "none"
    /\ dStatus' = detectFromBuffer(dAiType, dLines)
    /\ UNCHANGED <<dAiType, dOutput, dLines, trackerVars, diffVars, useCaseVars, adapterVars>>

BufferNext == DetectFromBufferCall

SpecBuffer == BufferInit /\ [][BufferNext]_vars

\* The lines of the buffer that detect does not find inactive.
ActiveLines == { i \in 1..Len(dLines) : detect(dAiType, dLines[i]) # "inactive" }

\* C19: detectFromBuffer gives the detect result of the newest line whose
\* result is not inactive; when every line is inactive on its own, detect of
\* the last 3 lines joined by line breaks; inactive for an empty buffer.
C19_NewestActiveLine ==
    dStatus # "none" =>
        /\ ActiveLines # {} =>
               dStatus = detect(dAiType,
                                dLines[CHOOSE i \in ActiveLines :
                                          \A k \in ActiveLines : k <= i])
        /\ ActiveLines = {} =>
               dStatus = detect(dAiType, Join(LastN(dLines, 3)))
        /\ dLines = <<>> => dStatus = "inactive"

\* more than 3 lines, each inactive on its own, and a status from the join
C19_Witness ==
    /\ dStatus \notin { "none", "inactive" }
    /\ Len(dLines) > 3
    /\ ActiveLines = {}

----------------------------------------------------------------------------
(* ANSI control sequences, under SpecDetect *)

\* Escape-introduced sequences terminated by a letter: ESC[m, ESC[0m,
\* ESC[0;0m, and a private-mode sequence such as ESC[?25h.
AnsiSequences ==
    { << CSI, LETTER >>, << CSI, DIGIT, LETTER >>,
      << CSI, DIGIT, ";", DIGIT, LETTER >>, << CSI, "?", DIGIT, LETTER >> }

\* t with s added after its first pos tokens
InsertAt(t, pos, s) == SubSeq(t, 1, pos) \o s \o SubSeq(t, pos + 1, Len(t))

\* C20: adding an ANSI control sequence before, after or inside a text does
\* not change what detect makes of it.
C20_AnsiInvariance ==
    dStatus # "none" =>
        \A s \in AnsiSequences : \A pos \in 0..Len(dOutput) :
            detect(dAiType, InsertAt(dOutput, pos, s)) = dStatus

\* Two processOutput calls for one terminal follow each other with no timer
\* expiry in between (the second falls within the first's 2000 ms window);
\* the terminal was not waiting before, the second chunk carries a waiting
\* cue and leaves the terminal waiting.
BurstEndingWaiting ==
    /\ lastOp.op = "processOutput" /\ lastOp'.op = "processOutput"
    /\ lastOp'.terminalId = lastOp.terminalId
    /\ lastOp.prev # "waiting"
    /\ lastOp'.currentStatus = "waiting"
    /\ getStatus(lastOp.terminalId)' = "waiting"

\* C23 (as claimed): when outputs are processed in rapid succession and the
\* last one carries a waiting cue, the listeners receive exactly one event,
\* for waiting; the statuses in between are not notified.
C23_BurstNotifiesOnce ==
    [][ BurstEndingWaiting =>
          lastOp.events \o lastOp'.events
            = << Event(lastOp.terminalId, "waiting") >> ]_vars

\* The last call for the terminal was a processOutput that armed the timer:
\* neither an idle chunk nor a waiting buffer.
ArmedByLastCall(terminalId) ==
    /\ lastCall[terminalId].op = "processOutput"
    /\ lastCall[terminalId].currentStatus # "idle"
    /\ lastCall[terminalId].bufferStatus # "waiting"

\* C24: every processOutput(id, ...) cancels the timer pending for id before
\* it decides: at most one idle timer is pending per terminal, a pending
\* timer is the one the last call for its terminal armed (no output has
\* arrived since, and it has not fired yet), and a timer that has fired was
\* armed by the last call for its terminal.
C24_OutputCancelsTimer ==
    /\ \A terminalId \in Ids : Cardinality(PendingFor(terminalId)) <= 1
    /\ \A h \in DOMAIN timers :
          /\ ArmedByLastCall(timers[h].terminalId)
          /\ lastCall[timers[h].terminalId].events = <<>>
          /\ timers[h].terminalId \in DOMAIN states
          /\ heap[states[timers[h].terminalId]].idleTimer = h
    /\ lastOp.op = "timeout" => ArmedByLastCall(lastOp.terminalId)
    /\ lastOp.op = "processOutput" =>
          Cardinality(PendingFor(lastOp.terminalId))
            = IF getStatus(lastOp.terminalId) = "working" THEN 1 ELSE 0

\* A processOutput has cancelled the pending timer of its terminal and armed
\* a new one, while the timer of another terminal stays pending.
C24_Witness ==
    /\ lastOp.op = "processOutput" /\ lastOp.cancelled
    /\ Cardinality(PendingFor(lastOp.terminalId)) = 1
    /\ \E other \in Ids \ {lastOp.terminalId} : PendingFor(other) # {}

\* C26: getStatus(id) is inactive exactly when id has no tracked state (no
\* processOutput for it since construction or since its last clear); no
\* processOutput and no timer expiry leaves a tracked terminal inactive.
C26_InactiveIffUntracked ==
    /\ \A terminalId \in Ids :
          /\ getStatus(terminalId) = "inactive" <=> terminalId \notin DOMAIN states
          /\ terminalId \in DOMAIN states <=> lastCall[terminalId].op = "processOutput"
    /\ lastOp.op \in { "processOutput", "timeout" } =>
          getStatus(lastOp.terminalId) # "inactive"

\* A timer expiry has left one terminal idle while the other, cleared after
\* it had been tracked, reads inactive again.
C26_Witness ==
    /\ lastOp.op = "timeout" /\ getStatus(lastOp.terminalId) = "idle"
    /\ \E other \in Ids :
          /\ lastCall[other].op = "clear"
          /\ getStatus(other) = "inactive"

\* The status, buffer and timer field of a terminal, or Null if untracked.
StateOf(terminalId) ==
    IF terminalId \in DOMAIN states THEN heap[states[terminalId]] ELSE Null

\* C27: processOutput(id, ...), clear(id) and a timer expiry for id leave the
\* status, the buffer and the pending timer of every other terminal as they
\* were, in every interleaving of operations on different ids.
C27_OtherTerminalsUntouched ==
    [][ lastOp'.op \in { "processOutput", "clear", "timeout" } =>
          \A other \in Ids \ { lastOp'.terminalId } :
              /\ StateOf(other)' = StateOf(other)
              /\ getStatus(other)' = getStatus(other)
              /\ PendingFor(other)' = PendingFor(other) ]_vars

\* clear has cancelled the timer of one terminal while the other is working
\* with its own timer pending.
C27_Witness ==
    /\ lastOp.op = "clear" /\ lastOp.cancelled
    /\ \E other \in Ids \ { lastOp.terminalId } :
          /\ getStatus(other) = "working"
          /\ Len(StateOf(other).outputBuffer) > 0
          /\ Cardinality(PendingFor(other)) = 1

----------------------------------------------------------------------------
(* More claims about DiffService, under SpecDiff *)

NoHunk(result) ==
    /\ result.hunks = <<>>
    /\ result.stats = [additions |-> 0, deletions |-> 0]

\* C28: diffing a content against itself yields only equal operations,
\* rendering them gives the empty text, and generateUnifiedDiff(A, A) and
\* generateStructuredDiff(file, A, A) give an empty diff: no hunk, stats 0/0.
C28_SelfDiffIsEmpty ==
    oldLines = newLines =>
        /\ Diffed =>
              /\ Len(diffEntries) = Len(oldLines)
              /\ \A i \in 1..Len(diffEntries) :
                    diffEntries[i] = Entry("equal", oldLines[i])
        /\ diffStage \in { "formatted", "parsed" } => formatted = <<>>
        /\ diffStage = "parsed" =>
              /\ NoHunk(diffResult)
              /\ generateUnifiedDiff(Join(oldLines), Join(newLines)) = <<>>
              /\ NoHunk(generateStructuredDiff(File, Join(oldLines), Join(newLines)))

\* A content of the greatest length, with two different lines, has been
\* diffed against itself, rendered and parsed.
C28_Witness ==
    /\ diffStage = "parsed"
    /\ oldLines = newLines
    /\ Len(oldLines) = MaxDiffLen
    /\ Cardinality(Range(oldLines)) = 2

\* The length of a longest common subsequence of two sequences of lines,
\* by its defining recursion on their first lines.
RECURSIVE LcsLength(_, _)
LcsLength(a, b) ==
    IF a = <<>> \/ b = <<>> THEN 0
    ELSE IF Head(a) = Head(b) THEN 1 + LcsLength(Tail(a), Tail(b))
    ELSE Max(LcsLength(Tail(a), b), LcsLength(a, Tail(b)))

CountOf(diff, type) == Len(Side(diff, {type}))

\* C29: the number of equal operations computeDiff returns is the length of
\* a longest common subsequence of oldLines and newLines under equality of
\* lines, so the number of delete plus insert operations is the least
\* possible: every line outside one longest common subsequence, once.
C29_EqualCountIsLcsLength ==
    Diffed =>
        /\ CountOf(diffEntries, "equal") = LcsLength(oldLines, newLines)
        /\ CountOf(diffEntries, "delete") + CountOf(diffEntries, "insert")
             = Len(oldLines) + Len(newLines) - 2 * LcsLength(oldLines, newLines)

\* Two sequences of the greatest length that differ in their first and last
\* lines and share a subsequence that is neither side's prefix nor suffix.
C29_Witness ==
    /\ Diffed
    /\ Len(oldLines) = MaxDiffLen /\ Len(newLines) = MaxDiffLen
    /\ oldLines[1] # newLines[1]
    /\ oldLines[MaxDiffLen] # newLines[MaxDiffLen]
    /\ CountOf(diffEntries, "equal") = MaxDiffLen - 1

----------------------------------------------------------------------------
(* More claims about parseUnifiedDiff, under SpecParse *)

\* The numbers the lines of a hunk carry in the given field, in order.
NumbersOf(hunk, field) ==
    LET Carries(l) == field \in DOMAIN l
        carrying == SelectSeq(hunk.lines, Carries)
    IN  [k \in 1..Len(carrying) |-> carrying[k][field]]

CountingFrom(start, n) == [k \in 1..n |-> start + k - 1]

\* C30: in each hunk parseUnifiedDiff returns, the lines with an
\* oldLineNumber (deletions and context) are numbered consecutively from the
\* hunk's oldStart and those with a newLineNumber (additions and context)
\* consecutively from its newStart, in the order they appear.
C30_ConsecutiveLineNumbers ==
    diffStage = "parsed" =>
        \A i \in 1..Len(diffResult.hunks) :
            LET hunk == diffResult.hunks[i]
                olds == NumbersOf(hunk, "oldLineNumber")
                news == NumbersOf(hunk, "newLineNumber")
            IN  /\ olds = CountingFrom(hunk.oldStart, Len(olds))
                /\ news = CountingFrom(hunk.newStart, Len(news))

\* A hunk that starts at different old and new lines and holds two lines
\* of different types, numbered on one side at least twice.
C30_Witness ==
    /\ diffStage = "parsed"
    /\ \E i \in 1..Len(diffResult.hunks) :
          LET hunk == diffResult.hunks[i]
          IN  /\ hunk.oldStart # hunk.newStart
              /\ Len(hunk.lines) = 2
              /\ hunk.lines[1].type # hunk.lines[2].type
              /\ \/ Len(NumbersOf(hunk, "oldLineNumber")) = 2
                 \/ Len(NumbersOf(hunk, "newLineNumber")) = 2

\* The lines of the parsed text that open a hunk: they start with @@ and the
\* header expression matches them.
ValidHeaders(lines) ==
    { k \in 1..Len(lines) :
        /\ ~IsMetadata(lines[k])
        /\ StartsWith(lines[k], << "@", "@" >>)
        /\ MatchHeader(lines[k]).ok }

\* The text from its first valid hunk header on.
FromFirstHeader(lines) ==
    LET first == CHOOSE k \in ValidHeaders(lines) :
                    \A j \in ValidHeaders(lines) : k <= j
    IN  Join(SubSeq(lines, first, Len(lines)))

\* C31: parseUnifiedDiff returns a result for every text; for an empty or
\* blank text and for one with no valid hunk header it has no hunk and stats
\* 0/0; the lines before the first valid hunk header are neither emitted nor
\* counted: the result is that of the text from that header on.
C31_ParseIsTotal ==
    diffStage = "parsed" =>
        /\ diffResult.file = File
        /\ DOMAIN diffResult = { "file", "hunks", "stats" }
        /\ ValidHeaders(Split(formatted)) = {} => NoHunk(diffResult)
        /\ ValidHeaders(Split(formatted)) # {} =>
              diffResult = parseUnifiedDiff(File, FromFirstHeader(Split(formatted)))

\* A text whose first line would be an addition, before a valid header that
\* is followed by a deletion: one hunk, no addition counted.
C31_Witness ==
    /\ diffStage = "parsed"
    /\ StartsWith(formatted, << "+", "a" >>)
    /\ Len(diffResult.hunks) = 1
    /\ diffResult.stats = [additions |-> 0, deletions |-> 1]

\* The pipeline has run to its end on the lines of two contents (a content
\* has at least one line).
StructuredDiffDone ==
    diffStage = "parsed" /\ oldLines # <<>> /\ newLines # <<>>

\* The DiffLine addresses a line of the content of its side with that text.
AddressesItsLine(l) ==
    /\ l.type = "addition" =>
          /\ l.newLineNumber \in 1..Len(newLines)
          /\ newLines[l.newLineNumber] = l.content
    /\ l.type = "deletion" =>
          /\ l.oldLineNumber \in 1..Len(oldLines)
          /\ oldLines[l.oldLineNumber] = l.content

\* C33: in generateStructuredDiff(file, old, new), in every hunk, an addition
\* with newLineNumber n has the text of line n of the new content and a
\* deletion with oldLineNumber m has the text of line m of the old content.
C33_LineNumbersAddressContents ==
    StructuredDiffDone =>
        \A h \in 1..Len(diffResult.hunks) :
            \A k \in 1..Len(diffResult.hunks[h].lines) :
                AddressesItsLine(diffResult.hunks[h].lines[k])

\* C34: the stats of generateStructuredDiff(file, old, new) are the numbers
\* of insert and delete operations of computeDiff on the lines, and so are
\* the numbers of addition and deletion lines of its hunks, whatever the
\* lines begin with.
C34_StatsCountOperations ==
    StructuredDiffDone =>
        /\ diffResult.stats.additions = CountOf(diffEntries, "insert")
        /\ diffResult.stats.deletions = CountOf(diffEntries, "delete")
        /\ LinesOfType(diffResult, "addition") = CountOf(diffEntries, "insert")
        /\ LinesOfType(diffResult, "deletion") = CountOf(diffEntries, "delete")

\* The DiffLine type of a rendered hunk line, by its prefix.
KindOfRendered(line) ==
    IF StartsWith(line, <<"+">>) THEN "addition"
    ELSE IF StartsWith(line, <<"-">>) THEN "deletion"
    ELSE "context"

\* C35: parseUnifiedDiff applied to the text formatAsUnifiedDiff produces
\* yields the hunks the renderer emitted, each with one DiffLine per rendered
\* line, of the same kind and text and in the same order, and no other line.
C35_RoundTripKeepsLines ==
    diffStage = "parsed" =>
        LET flushed == FlushedHunks(diffEntries)
        IN  /\ Len(diffResult.hunks) = Len(flushed)
            /\ \A n \in 1..Len(flushed) :
                  /\ Len(diffResult.hunks[n].lines) = Len(flushed[n].lines)
                  /\ \A k \in 1..Len(flushed[n].lines) :
                        /\ diffResult.hunks[n].lines[k].type
                              = KindOfRendered(flushed[n].lines[k])
                        /\ diffResult.hunks[n].lines[k].content
                              = Tail(flushed[n].lines[k])

\* The chunk of the last call has a line that is an idle prompt.
HasIdlePromptLine(output) == Test(PromptLine, stripAnsiCodes(output))

\* The last call was a processOutput, for a waiting terminal, of a chunk with
\* an idle prompt line.
PromptWhileWaiting ==
    /\ lastOp.op = "processOutput"
    /\ lastOp.prev = "waiting"
    /\ HasIdlePromptLine(lastOp.output)

\* Some waiting or working pattern of the profile matches the chunk.
HasCue(aiType, output) ==
    GroupHit(aiType, "waiting", output) \/ GroupHit(aiType, "working", output)

ProfilesOfLastCall ==
    { aiType \in TrackerAiTypes :
        detectorDetect[aiType, lastOp.output] = lastOp.currentStatus }

C36_TimerOnlyWhileWorking ==
    /\ \A h \in DOMAIN timers :
          /\ timers[h].terminalId \in DOMAIN states
          /\ states[timers[h].terminalId] = timers[h].state
          /\ getStatus(timers[h].terminalId) = "working"
    /\ \A id \in Ids :
          getStatus(id) \in { "waiting", "idle", "inactive" } => PendingFor(id) = {}
    /\ lastOp.op = "timeout" =>
          /\ lastOp.prev = "working"
          /\ lastOp.events = << Event(lastOp.terminalId, "idle") >>
          /\ getStatus(lastOp.terminalId) = "idle"

\* A timer has expired for one terminal while another, working one has its
\* timer pending.
C36_Witness ==
    /\ lastOp.op = "timeout"
    /\ getStatus(lastOp.terminalId) = "idle"
    /\ \E id \in Ids \ { lastOp.terminalId } :
          getStatus(id) = "working" /\ PendingFor(id) # {}

CallFor(id) ==
    \/ \E aiType \in TrackerAiTypes, output \in AnswerChunks :
          ProcessOutput(id, aiType, output)
    \/ Clear(id)

\* C38: a working terminal always has exactly one pending idle timer, and
\* working is transient: unless processOutput or clear is issued for the
\* terminal again and again, it is eventually not working for good, the
\* timer having fired and set it idle.
C38_WorkingIsTransient ==
    /\ [](\A id \in Ids :
            getStatus(id) = "working" => Cardinality(PendingFor(id)) = 1)
    /\ \A id \in Ids :
          \/ []<><<CallFor(id)>>_vars
          \/ <>[](getStatus(id) # "working")

\* The timer of a terminal that had received two chunks fired and set it
\* idle.
C38_Witness ==
    /\ lastOp.op = "timeout"
    /\ lastOp.prev = "working"
    /\ Len(received[lastOp.terminalId]) >= 2
    /\ getStatus(lastOp.terminalId) = "idle"
    /\ timers = <<>>

----------------------------------------------------------------------------
(* Claims about a long stream of output *)

\* The lines that followed the newest line with a waiting cue among those the
\* terminal received (all of them when there is no such line).
SinceCue(aiType, lines) ==
    LET cues == { i \in 1..Len(lines) : detect(aiType, lines[i]) = "waiting" }
    IN  IF cues = {} THEN Len(lines)
        ELSE Len(lines) - (CHOOSE i \in cues : \A j \in cues : j <= i)

\* A chunk that matches no pattern was processed for a terminal that was
\* waiting.
NoPatternWhileWaiting ==
    /\ lastOp.op = "processOutput"
    /\ lastOp.prev = "waiting"
    /\ lastOp.currentStatus = "inactive"

\* C22 (as claimed): once a terminal is waiting, a chunk that matches no
\* pattern leaves it waiting and emits no event, however many such chunks and
\* lines followed the waiting cue.
C22_WaitingSticks ==
    NoPatternWhileWaiting =>
        /\ getStatus(lastOp.terminalId) = "waiting"
        /\ lastOp.events = <<>>

\* C22 (amended): when the terminal's chunks are all processed with one
\* profile, it does so as long as fewer than 20 non-blank lines have followed
\* the newest line with a waiting cue; the chunk that brings them to 20 or
\* more makes the terminal working, with one working event and the idle
\* timer armed.
C22_WaitingSticksWhileBuffered ==
    NoPatternWhileWaiting =>
        IF SinceCue(StreamAiType, received[lastOp.terminalId]) < MAX_BUFFER_LINES
        THEN /\ getStatus(lastOp.terminalId) = "waiting"
             /\ lastOp.events = <<>>
             /\ PendingFor(lastOp.terminalId) = {}
        ELSE /\ getStatus(lastOp.terminalId) = "working"
             /\ lastOp.events = << Event(lastOp.terminalId, "working") >>
             /\ Cardinality(PendingFor(lastOp.terminalId)) = 1

\* A waiting terminal has stayed waiting with its cue the oldest line of a
\* full buffer.
C22_Witness ==
    /\ NoPatternWhileWaiting
    /\ getStatus(lastOp.terminalId) = "waiting"
    /\ SinceCue(StreamAiType, received[lastOp.terminalId]) = MAX_BUFFER_LINES - 1

\* The line buffer of a tracked terminal.
BufferOf(terminalId) == heap[states[terminalId]].outputBuffer

\* The buffer after a processOutput is the last 20 of the non-blank lines the
\* terminal's state has received, in arrival order.
BufferIsLast20 ==
    /\ Len(BufferOf(lastOp.terminalId)) <= MAX_BUFFER_LINES
    /\ BufferOf(lastOp.terminalId)
         = LastN(received[lastOp.terminalId], MAX_BUFFER_LINES)

\* The status processOutput leaves when the chunk is classified as current
\* and the buffer holds the last 20 lines received.
StatusGiven(terminalId, current) ==
    decide(lastOp.prev, current,
           detectFromBuffer(StreamAiType,
                            LastN(received[terminalId], MAX_BUFFER_LINES))).status

\* C25 (as claimed): after every processOutput the buffer holds at most 20
\* lines, the last 20 non-blank lines received in arrival order, also when
\* one chunk carries more than 20 lines; and evicted lines do not influence
\* the status: that of a chunk of more than 20 lines is the one its last 20
\* lines give.
C25_EvictedLinesAreForgotten ==
    lastOp.op = "processOutput" =>
        LET lines == newLinesOf(lastOp.output)
        IN  /\ BufferIsLast20
            /\ Len(lines) > MAX_BUFFER_LINES =>
                  getStatus(lastOp.terminalId)
                    = StatusGiven(lastOp.terminalId,
                                  detect(StreamAiType,
                                         Join(LastN(lines, MAX_BUFFER_LINES))))

\* C25 (amended): the same of the buffer; an evicted line does not influence
\* the status of a later call, but it does influence that of the call that
\* delivered it: the status is decided by detect on the whole chunk, with
\* the lines that the call evicts, and by detectFromBuffer on the last 20
\* lines received.
C25_EvictedLinesCountOnce ==
    lastOp.op = "processOutput" =>
        /\ BufferIsLast20
        /\ getStatus(lastOp.terminalId)
             = StatusGiven(lastOp.terminalId, detect(StreamAiType, lastOp.output))

\* A chunk of 21 lines has left the terminal idle through its first line,
\* the prompt, which the buffer no longer holds.
C25_Witness ==
    /\ lastOp.op = "processOutput"
    /\ Len(newLinesOf(lastOp.output)) > MAX_BUFFER_LINES
    /\ Len(received[lastOp.terminalId]) > Len(newLinesOf(lastOp.output))
    /\ getStatus(lastOp.terminalId) = "idle"
    /\ \A i \in 1..Len(BufferOf(lastOp.terminalId)) :
          detect(StreamAiType, BufferOf(lastOp.terminalId)[i]) = "inactive"

----------------------------------------------------------------------------
(* FileWatchController: the git commit watcher *)

MaxCommits == 3        \* the commits HEAD points at, one after the other
MaxEvents  == 3        \* most git-change events delivered

\* What `git rev-parse HEAD` prints for commit n, trimmed.
HashOf(n) == << n >>

\* A getCurrentHeadCommit call that is awaited: by updateLastHeadCommit
\* (n = 0) or by the handleGitChange of event n; stdout is what the call
\* resolves to once the child process has ended.
Awaiting(by, n) == [by |-> by, n |-> n, ended |-> FALSE, stdout |-> NoCommit]

\* After setupGitCommitWatcher: updateLastHeadCommit has been called and not
\* awaited, and the watcher is subscribed.
WatchInit ==
    /\ head = 1
    /\ lastHeadCommit = NoCommit
    /\ inFlight = { Awaiting("updateLastHeadCommit", 0) }
    /\ started = 0
    /\ handled = <<>>
    /\ TrackerIdle /\ DetectIdle /\ DiffIdle /\ UseCaseIdle /\ GatewayIdle

\* The user or the agent commits: HEAD points at a new commit.
Commit ==
    /\ head < MaxCommits
    /\ head' = head + 1
    /\ UNCHANGED <<lastHeadCommit, inFlight, started, handled>>
    /\ UNCHANGED <<trackerVars, detectVars, diffVars, useCaseVars, gatewayVars>>

\* The watcher delivers a change of .git/HEAD, .git/refs/** or .git/index:
\* handleGitChange runs up to its await.
HandleGitChange ==
    /\ started < MaxEvents
    /\ started' = started + 1
    /\ inFlight' = inFlight \cup { Awaiting("handleGitChange", started + 1) }
    /\ UNCHANGED <<head, lastHeadCommit, handled>>
    /\ UNCHANGED <<trackerVars, detectVars, diffVars, useCaseVars, gatewayVars>>

\* exec's callback: resolve(stdout.trim()), or resolve(undefined) on error.
execCallback(error, stdout) == IF error THEN NoCommit ELSE stdout

\* The child process of one call runs git rev-parse HEAD and ends.
RevParse(call, error) ==
    /\ call \in inFlight
    /\ ~call.ended
    /\ inFlight' = (inFlight \ { call })
                     \cup { [call EXCEPT !.ended = TRUE,
                                         !.stdout = execCallback(error, HashOf(head))] }
    /\ UNCHANGED <<head, lastHeadCommit, started, handled>>
    /\ UNCHANGED <<trackerVars, detectVars, diffVars, useCaseVars, gatewayVars>>

\* handleGitChange after its await: should handleCommit run?
commitDetected(currentCommit, last) ==
    currentCommit # NoCommit /\ currentCommit # last

\* The continuation of updateLastHeadCommit or of handleGitChange.
Resume(call) ==
    /\ call \in inFlight
    /\ call.ended
    /\ inFlight' = inFlight \ { call }
    /\ IF call.by = "updateLastHeadCommit"
       THEN /\ lastHeadCommit' = call.stdout
            /\ UNCHANGED handled
       ELSE IF commitDetected(call.stdout, lastHeadCommit)
       THEN /\ lastHeadCommit' = call.stdout
            /\ handled' = Append(handled, [currentCommit |-> call.stdout,
                                           lastHeadCommit |-> lastHeadCommit])
       ELSE UNCHANGED <<lastHeadCommit, handled>>
    /\ UNCHANGED <<head, started>>
    /\ UNCHANGED <<trackerVars, detectVars, diffVars, useCaseVars, gatewayVars>>

WatchNext ==
    \/ Commit
    \/ HandleGitChange
    \/ \E call \in inFlight : RevParse(call, FALSE)
    \/ \E call \in inFlight : RevParse(call, TRUE)
    \/ \E call \in inFlight : Resume(call)

SpecWatch == WatchInit /\ [][WatchNext]_vars

\* C39: handleCommit runs only when the commit read by a git-change event
\* differs from the commit last observed, and at most once per change of
\* HEAD: never for the commit HEAD pointed at when the watcher was set up,
\* and never twice for the same commit.
C39_HandleOncePerHeadChange ==
    /\ \A i \in 1..Len(handled) :
          /\ handled[i].currentCommit # handled[i].lastHeadCommit
          /\ handled[i].currentCommit # HashOf(1)
    /\ \A i, j \in 1..Len(handled) :
          handled[i].currentCommit = handled[j].currentCommit => i = j

----------------------------------------------------------------------------
(* VscodeTerminalGateway *)

GatewayIds       == { "101", "102", "103" }      \* terminal ids
GatewayTerminals == { "zsh", "bash", "claude" }  \* vscode.Terminal objects

Undefined == "undefined"

GatewayInit ==
    /\ terminals = <<>>
    /\ terminalToId = <<>>
    /\ TrackerIdle /\ DetectIdle /\ DiffIdle /\ UseCaseIdle /\ WatchIdle

\* Map.prototype.get
MapGet(f, k) == IF k \in DOMAIN f THEN f[k] ELSE Undefined

getTerminal(id) == MapGet(terminals, id)

getTerminalId(terminal) == MapGet(terminalToId, terminal)

RegisterTerminal(id, terminal) ==
    /\ terminals' = MapSet(terminals, id, terminal)
    /\ terminalToId' = MapSet(terminalToId, terminal, id)
    /\ UNCHANGED <<trackerVars, detectVars, diffVars, useCaseVars, watchVars>>

\* if (terminal) this.terminalToId.delete(terminal)
forgetTerminal(reverse, terminal) ==
    IF terminal # Undefined THEN MapDelete(reverse, terminal) ELSE reverse

UnregisterTerminal(id) ==
    /\ terminalToId' = forgetTerminal(terminalToId, getTerminal(id))
    /\ terminals' = MapDelete(terminals, id)
    /\ UNCHANGED <<trackerVars, detectVars, diffVars, useCaseVars, watchVars>>

GatewayNext ==
    \/ \E id \in GatewayIds, terminal \in GatewayTerminals :
          RegisterTerminal(id, terminal)
    \/ \E id \in GatewayIds : UnregisterTerminal(id)

SpecGateway == GatewayInit /\ [][GatewayNext]_vars

\* The ids under which the terminal is registered.
IdsOf(terminal) == { id \in DOMAIN terminals : terminals[id] = terminal }

\* C40: getTerminalId(terminal) is an id under which the terminal is
\* registered, and undefined if there is none; getTerminalId(getTerminal(id))
\* is id for every registered id.
C40_IdOfRegisteredTerminal ==
    /\ \A terminal \in GatewayTerminals :
          IF IdsOf(terminal) = {}
          THEN getTerminalId(terminal) = Undefined
          ELSE getTerminalId(terminal) \in IdsOf(terminal)
    /\ \A id \in DOMAIN terminals : getTerminalId(getTerminal(id)) = id

====
